---- MODULE Spec2Model ----
(***************************************************************************)
(* Model of the AST/ASG analysis core of ast-mcp-server:                   *)
(*   - node_to_dict (tools.py): the dictionary form of a parsed tree       *)
(*   - create_enhanced_asg_from_ast (enhanced_tools.py): tree lowering,    *)
(*     definition pass, reference pass, graph assembly                     *)
(*   - generate_ast_diff / find_nodes_in_range (enhanced_tools.py)         *)
(* Texts are sequences of one-character strings, so that slicing the       *)
(* source (node_to_dict) is computed as the code computes it.  A node id   *)
(* f"{type}_{start_byte}_{end_byte}" is the tuple <<type, start, end>>:    *)
(* the two numeric fields contain no "_", so the formatted string decodes  *)
(* uniquely from the right and the tuple carries the same information.     *)
(***************************************************************************)
EXTENDS Integers, Sequences, FiniteSets, TLC

VARIABLES
    pc,             \* position of the current call
    builder,        \* "enhanced": create_enhanced_asg_from_ast, "basic": create_asg_from_ast
    ast_data,       \* argument of the current call (parse result or error)
    nodes,          \* create_enhanced_asg_from_ast: local list nodes
    edges,          \* create_enhanced_asg_from_ast: local list edges
    node_ids,       \* create_enhanced_asg_from_ast: local dict node_ids
    root_id,        \* create_enhanced_asg_from_ast: local root_id
    scope_manager,  \* add_enhanced_python_semantic_edges: local ScopeManager
    current_scope,  \* add_enhanced_python_semantic_edges: nonlocal current_scope
    symbols,        \* add_python_semantic_edges: locals functions and variables
    result,         \* value returned by the last finished call
    ncalls,         \* number of calls started so far
    prev,           \* value returned by the call before, when it had the same argument
    diff_in,        \* arguments of generate_ast_diff
    diff_out,       \* value returned by generate_ast_diff
    pos_in,         \* arguments of find_node_at_position
    pos_out,        \* value returned by get_node_by_position, then by the tool
    stack,          \* frames of the recursive function that is running, innermost last
    ret,            \* value the last finished frame returned
    lookup,         \* ScopeManager.find_variable: var_name and local current_scope
    visited,        \* per pass, the current scope at each node the pass has entered
    md5,            \* hashlib.md5: the digest of each source text
    files,          \* the files of CACHE_DIR, by (code_hash, resource_type)
    AST_CACHE,      \* server.py: the module-level dictionary AST_CACHE
    calls           \* the tool calls the server has handled, oldest first

vars == <<pc, builder, ast_data, nodes, edges, node_ids, root_id, scope_manager,
          current_scope, symbols, result, ncalls, prev, diff_in, diff_out, pos_in, pos_out,
          stack, ret, lookup, visited, md5, files, AST_CACHE, calls>>

\* the state of the server's caches
cache == <<md5, files, AST_CACHE, calls>>

\* the state of a traversal that is carried out frame by frame
walk == <<stack, ret, lookup, visited>>

\* Python's None.  Ids and scope ids are tuples, so None is the empty tuple.
None == <<>>

----------------------------------------------------------------------------
(* Bounds of the input enumeration. *)

\* total number of statements (nested ones included) of a generated program
MaxStmts == 3
\* number of analysis calls in one run of the server
MaxCalls == 2
\* number of edit ranges handed to the diff
MaxRanges == 2
\* largest line and column of a queried position
MaxLine == 2
MaxColumn == 13

----------------------------------------------------------------------------
(* The parser collaborator: concrete syntax trees in the shape the         *)
(* tree-sitter Python grammar produces, laid out over a source text.       *)

\* a leaf token: sp spaces precede it
Tok(type, text, sp) ==
    [type |-> type, text |-> text, sp |-> sp, line |-> -1, kids |-> <<>>]
\* an inner node; its span is the hull of its children
Inner(type, kids) ==
    [type |-> type, text |-> <<>>, sp |-> 0, line |-> -1, kids |-> kids]
\* the same shape, started on a new line indented by ind spaces
OnLine(sh, ind) == [sh EXCEPT !.line = ind]

Id(name, sp) == Tok("identifier", name, sp)
IntLit(sp) == Tok("integer", <<"1">>, sp)
Kw(word, chars, sp) == Tok(word, chars, sp)

RECURSIVE Spaces(_)
Spaces(n) == IF n <= 0 THEN <<>> ELSE <<" ">> \o Spaces(n - 1)

\* Lay a shape out from cursor cur = [b, r, c] (byte, row, column); the
\* result carries the tree-sitter node, the cursor after it and the source
\* characters it contributed.
RECURSIVE Lay(_, _), LayKids(_, _, _)
Lay(sh, cur) ==
    LET brk  == sh.line >= 0 /\ cur.b > 0
        cur1 == IF brk
                THEN [b |-> cur.b + 1 + sh.line, r |-> cur.r + 1, c |-> sh.line]
                ELSE cur
        pre  == IF brk THEN <<"\n">> \o Spaces(sh.line) ELSE <<>>
    IN  IF sh.kids = <<>>
        THEN LET gap == IF sh.line >= 0 THEN 0 ELSE sh.sp
                 st  == [b |-> cur1.b + gap, r |-> cur1.r, c |-> cur1.c + gap]
                 en  == [b |-> st.b + Len(sh.text), r |-> st.r, c |-> st.c + Len(sh.text)]
             IN  [node |-> [type |-> sh.type,
                            start_byte |-> st.b, end_byte |-> en.b,
                            start_point |-> <<st.r, st.c>>,
                            end_point |-> <<en.r, en.c>>,
                            children |-> <<>>],
                  cur  |-> en,
                  src  |-> pre \o Spaces(gap) \o sh.text]
        ELSE LET ks == LayKids(sh.kids, Len(sh.kids), cur1)
                 fst == ks.nodes[1]
                 lst == ks.nodes[Len(ks.nodes)]
             IN  [node |-> [type |-> sh.type,
                            start_byte |-> fst.start_byte, end_byte |-> lst.end_byte,
                            start_point |-> fst.start_point,
                            end_point |-> lst.end_point,
                            children |-> ks.nodes],
                  cur  |-> ks.cur,
                  src  |-> pre \o ks.src]
\* the first n shapes of shs, one after the other
LayKids(shs, n, cur) ==
    IF n = 0
    THEN [nodes |-> <<>>, cur |-> cur, src |-> <<>>]
    ELSE LET before == LayKids(shs, n - 1, cur)
             last   == Lay(shs[n], before.cur)
         IN  IF before.cur.b >= 0    \* always: the cursor is known before it is used
             THEN [nodes |-> Append(before.nodes, last.node), cur |-> last.cur,
                   src |-> before.src \o last.src]
             ELSE before

\* tools.py node_to_dict: the dictionary of a tree-sitter node; "children" is
\* present only when the node has children, "text" is the source slice.
RECURSIVE node_to_dict(_, _)
node_to_dict(node, source_bytes) ==
    LET res == [type |-> node.type,
                start_byte |-> node.start_byte,
                end_byte |-> node.end_byte,
                start_point |-> [row |-> node.start_point[1], column |-> node.start_point[2]],
                end_point |-> [row |-> node.end_point[1], column |-> node.end_point[2]],
                text |-> SubSeq(source_bytes, node.start_byte + 1, node.end_byte)]
    IN  IF Len(node.children) > 0
        THEN [f \in DOMAIN res \cup {"children"} |->
                 IF f = "children"
                 THEN [i \in 1..Len(node.children) |->
                          node_to_dict(node.children[i], source_bytes)]
                 ELSE res[f]]
        ELSE res

\* node.get("children", [])
Children(node) == IF "children" \in DOMAIN node THEN node.children ELSE <<>>

\* the tree of a laid out shape
ParseShape(sh) ==
    LET lay == Lay(sh, [b |-> 0, r |-> 0, c |-> 0])
    IN  node_to_dict(lay.node, lay.src)

----------------------------------------------------------------------------
(* Generated programs: statements over the names a and b.                  *)

NameA == <<"a">>
NameB == <<"b">>

\* simple statements: x = 1, x, x(), import x
SimpleStmts ==
    {[k |-> "assign", x |-> NameA], [k |-> "assign", x |-> NameB],
     [k |-> "use", x |-> NameA],    [k |-> "call", x |-> NameA],
     [k |-> "import", x |-> NameA]}

\* headers of compound statements: def a():, def b(a):, class b:, if a:
Heads ==
    {[k |-> "def", x |-> NameA, ps |-> <<>>],
     [k |-> "def", x |-> NameB, ps |-> <<NameA>>],
     [k |-> "class", x |-> NameB, ps |-> <<>>],
     [k |-> "if", x |-> NameA, ps |-> <<>>]}

\* statements of exactly n statements in total, and statement sequences of
\* exactly m statements in total
RECURSIVE StmtsOfCost(_), SeqsOfCost(_)
StmtsOfCost(n) ==
    IF n = 1 THEN SimpleStmts
    ELSE {[k |-> h.k, x |-> h.x, ps |-> h.ps, body |-> b] :
              h \in Heads, b \in SeqsOfCost(n - 1)}
SeqsOfCost(m) ==
    IF m = 0 THEN {<<>>}
    ELSE UNION {{<<s>> \o rest : s \in StmtsOfCost(j), rest \in SeqsOfCost(m - j)} :
                    j \in 1..m}

Programs == UNION {SeqsOfCost(m) : m \in 1..MaxStmts}

Chars(word) ==
    CASE word = "def"    -> <<"d", "e", "f">>
      [] word = "class"  -> <<"c", "l", "a", "s", "s">>
      [] word = "if"     -> <<"i", "f">>
      [] word = "import" -> <<"i", "m", "p", "o", "r", "t">>
      [] word = "return" -> <<"r", "e", "t", "u", "r", "n">>
      [] word = "while"  -> <<"w", "h", "i", "l", "e">>
      [] word = "else"   -> <<"e", "l", "s", "e">>
      [] word = "match"  -> <<"m", "a", "t", "c", "h">>
      [] word = "case"   -> <<"c", "a", "s", "e">>
      [] OTHER           -> <<word>>

Word(word, sp) == Kw(word, Chars(word), sp)

RECURSIVE ParamShapes(_, _)
ParamShapes(ps, first) ==
    IF ps = <<>> THEN <<>>
    ELSE (IF first THEN <<>> ELSE <<Word(",", 0)>>)
         \o <<Id(Head(ps), IF first THEN 0 ELSE 1)>>
         \o ParamShapes(Tail(ps), FALSE)

ParametersShape(ps) ==
    Inner("parameters", <<Word("(", 0)>> \o ParamShapes(ps, TRUE) \o <<Word(")", 0)>>)

CallShape(name, args) ==
    Inner("call", <<Id(name, 0),
                    Inner("argument_list", <<Word("(", 0)>> \o args \o <<Word(")", 0)>>)>>)

AssignShape(target, value) ==
    Inner("assignment", <<target, Word("=", 1), value>>)

\* the concrete syntax of a statement at indentation ind
RECURSIVE StmtShape(_, _), BodyShapes(_, _)
StmtShape(s, ind) ==
    CASE s.k = "assign" ->
           OnLine(Inner("expression_statement",
                        <<AssignShape(Id(s.x, 0), IntLit(1))>>), ind)
      [] s.k = "use" ->
           OnLine(Inner("expression_statement", <<Id(s.x, 0)>>), ind)
      [] s.k = "call" ->
           OnLine(Inner("expression_statement", <<CallShape(s.x, <<>>)>>), ind)
      [] s.k = "import" ->
           OnLine(Inner("import_statement",
                        <<Word("import", 0), Inner("dotted_name", <<Id(s.x, 1)>>)>>), ind)
      [] s.k = "def" ->
           OnLine(Inner("function_definition",
                        <<Word("def", 0), Id(s.x, 1), ParametersShape(s.ps), Word(":", 0),
                          Inner("block", BodyShapes(s.body, ind + 4))>>), ind)
      [] s.k = "class" ->
           OnLine(Inner("class_definition",
                        <<Word("class", 0), Id(s.x, 1), Word(":", 0),
                          Inner("block", BodyShapes(s.body, ind + 4))>>), ind)
      [] s.k = "if" ->
           OnLine(Inner("if_statement",
                        <<Word("if", 0), Id(s.x, 1), Word(":", 0),
                          Inner("block", BodyShapes(s.body, ind + 4))>>), ind)
BodyShapes(ss, ind) ==
    IF ss = <<>> THEN <<>>
    ELSE <<StmtShape(Head(ss), ind)>> \o BodyShapes(Tail(ss), ind)

ModuleShape(p) == Inner("module", BodyShapes(p, 0))

----------------------------------------------------------------------------
(* The scenarios of the specification, as concrete syntax.                 *)

GlobalVarName == <<"g", "l", "o", "b", "a", "l", "_", "v", "a", "r">>
NameF == <<"f">>
NameN == <<"n">>
NameX == <<"x">>

ReturnShape(e, ind) == OnLine(Inner("return_statement", <<Word("return", 0), e>>), ind)

DefShape(name, ps, body, ind) ==
    OnLine(Inner("function_definition",
                 <<Word("def", 0), Id(name, 1), ParametersShape(ps), Word(":", 0),
                   Inner("block", body)>>), ind)

\* global_var = 1 / def f(): / return global_var
GlobalRefShape ==
    Inner("module",
          <<OnLine(Inner("expression_statement",
                         <<AssignShape(Id(GlobalVarName, 0), IntLit(1))>>), 0),
            DefShape(NameF, <<>>, <<ReturnShape(Id(GlobalVarName, 1), 4)>>, 0)>>)

\* def f(n): / return f(n - 1)
RecursionShape ==
    Inner("module",
          <<DefShape(NameF, <<NameN>>,
                     <<ReturnShape(
                         [CallShape(NameF,
                                    <<Inner("binary_operator",
                                            <<Id(NameN, 0), Word("-", 1), IntLit(1)>>)>>)
                            EXCEPT !.kids[1].sp = 1], 4)>>, 0)>>)

\* def f(n): / return n
PositionShape ==
    Inner("module",
          <<DefShape(NameF, <<NameN>>, <<ReturnShape(Id(NameN, 1), 4)>>, 0)>>)

\* x = 1  (and x = 2 has the same shape)
LiteralShape ==
    Inner("module",
          <<OnLine(Inner("expression_statement",
                         <<AssignShape(Id(NameX, 0), IntLit(1))>>), 0)>>)

\* x = 2
EditedLiteralShape ==
    Inner("module",
          <<OnLine(Inner("expression_statement",
                         <<AssignShape(Id(NameX, 0), Tok("integer", <<"2">>, 1))>>), 0)>>)

\* x = 1 / def f(x): / x = 1 / return x      (shadowing by a parameter and
\* by a local assignment)
ShadowShape ==
    Inner("module",
          <<OnLine(Inner("expression_statement",
                         <<AssignShape(Id(NameX, 0), IntLit(1))>>), 0),
            DefShape(NameF, <<NameX>>,
                     <<OnLine(Inner("expression_statement",
                                    <<AssignShape(Id(NameX, 0), IntLit(1))>>), 4),
                       ReturnShape(Id(NameX, 1), 4)>>, 0)>>)

\* a, b = 1, 1 / b      (unpacking: the targets are a pattern_list)
UnpackingShape ==
    Inner("module",
          <<OnLine(Inner("expression_statement",
                         <<Inner("assignment",
                                 <<Inner("pattern_list",
                                         <<Id(NameA, 0), Word(",", 0), Id(NameB, 1)>>),
                                   Word("=", 1),
                                   Inner("expression_list",
                                         <<IntLit(1), Word(",", 0), IntLit(1)>>)>>)>>), 0),
            OnLine(Inner("expression_statement", <<Id(NameB, 0)>>), 0)>>)

\* while a: / a = 1 / a      (a loop, which is a scope and a control-flow node)
WhileShape ==
    Inner("module",
          <<OnLine(Inner("while_statement",
                         <<Word("while", 0), Id(NameA, 1), Word(":", 0),
                           Inner("block",
                                 <<OnLine(Inner("expression_statement",
                                                <<AssignShape(Id(NameA, 0), IntLit(1))>>),
                                          4)>>)>>), 0),
            OnLine(Inner("expression_statement", <<Id(NameA, 0)>>), 0)>>)

\* if a: / a / else: / b      (the second block lies inside the else clause)
IfElseShape ==
    Inner("module",
          <<OnLine(Inner("if_statement",
                         <<Word("if", 0), Id(NameA, 1), Word(":", 0),
                           Inner("block",
                                 <<OnLine(Inner("expression_statement",
                                                <<Id(NameA, 0)>>), 4)>>),
                           OnLine(Inner("else_clause",
                                        <<Word("else", 0), Word(":", 0),
                                          Inner("block",
                                                <<OnLine(Inner("expression_statement",
                                                               <<Id(NameB, 0)>>), 4)>>)>>),
                                  0)>>), 0)>>)

\* match a: / case a: / a      (a grammar whose match statement holds its
\* case clauses directly, so the statement has no block child)
MatchShape ==
    Inner("module",
          <<OnLine(Inner("match_statement",
                         <<Word("match", 0), Id(NameA, 1), Word(":", 0),
                           OnLine(Inner("case_clause",
                                        <<Word("case", 0),
                                          Inner("case_pattern", <<Id(NameA, 1)>>),
                                          Word(":", 0),
                                          Inner("block",
                                                <<OnLine(Inner("expression_statement",
                                                               <<Id(NameA, 0)>>), 8)>>)>>),
                                  4)>>), 0)>>)

\* trees with unpacking targets and with the other control-flow statements
StatementShapes == {UnpackingShape, WhileShape, IfElseShape, MatchShape}

ScenarioShapes ==
    {GlobalRefShape, RecursionShape, PositionShape, LiteralShape, ShadowShape}

\* the trees the parser hands to the analysis
ProgramTrees == {ParseShape(ModuleShape(p)) : p \in Programs}
ScenarioTrees == {ParseShape(sh) : sh \in ScenarioShapes}
StatementTrees == {ParseShape(sh) : sh \in StatementShapes}
Trees == ProgramTrees \cup ScenarioTrees \cup StatementTrees

----------------------------------------------------------------------------
(* Dictionaries are functions; d[k] = v is Put, d.get(k) is Get.           *)

EmptyDict == [k \in {} |-> None]
Put(d, k, v) == [x \in DOMAIN d \cup {k} |-> IF x = k THEN v ELSE d[x]]
Get(d, k) == IF k \in DOMAIN d THEN d[k] ELSE None
\* truth value of an id, a dictionary of a node, or None
Truthy(v) == v # None

\* f"{node['type']}_{node['start_byte']}_{node['end_byte']}"
NodeId(node) == <<node.type, node.start_byte, node.end_byte>>

\* enhanced_tools.py module constants
PYTHON_CONTROL_FLOW_NODES ==
    {"if_statement", "for_statement", "while_statement",
     "try_statement", "with_statement", "match_statement"}
PYTHON_SCOPE_NODES ==
    {"function_definition", "class_definition",
     "for_statement", "while_statement", "with_statement"}

----------------------------------------------------------------------------
(* create_enhanced_asg_from_ast: tree lowering.                            *)

\* extract_nodes(node, parent_id) acting on the lists nodes, edges and the
\* dictionary node_ids, which st carries
\* what extract_nodes does at one node before it turns to the children
LowerNode(node, parent_id, st) ==
    LET node_id    == NodeId(node)
        node_index == Len(st.nodes)
        node_obj   == [id |-> node_id,
                       type |-> node.type,
                       text |-> node.text,
                       start_byte |-> node.start_byte,
                       end_byte |-> node.end_byte,
                       start_line |-> node.start_point.row,
                       start_col |-> node.start_point.column,
                       end_line |-> node.end_point.row,
                       end_col |-> node.end_point.column]
    IN  [nodes |-> Append(st.nodes, node_obj),
         node_ids |-> Put(st.node_ids, node_id, node_index),
         edges |-> IF Truthy(parent_id)
                   THEN Append(st.edges, [source |-> parent_id,
                                          target |-> node_id,
                                          type |-> "contains"])
                   ELSE st.edges]

RECURSIVE extract_nodes(_, _, _), extract_children(_, _, _, _)
extract_nodes(node, parent_id, st) ==
    LET node_id == NodeId(node)
        st1 == LowerNode(node, parent_id, st)
    IN  IF "children" \in DOMAIN node
        THEN extract_children(node.children, Len(node.children), node_id, st1)
        ELSE st1
\* for child in node["children"]: extract_nodes(child, node_id), for the
\* first n children
extract_children(cs, n, parent_id, st) ==
    IF n = 0 THEN st
    ELSE LET before == extract_children(cs, n - 1, parent_id, st)
         IN  IF Len(before.nodes) > 0    \* always: the earlier children are done first
             THEN extract_nodes(cs[n], parent_id, before)
             ELSE before

----------------------------------------------------------------------------
(* class ScopeManager                                                      *)

GlobalScope == <<"global">>

\* ScopeManager.__init__
StaleScopeManager ==
    IF scope_manager # None THEN scope_manager
    ELSE [scopes |-> EmptyDict, variables |-> EmptyDict, functions |-> EmptyDict,
          classes |-> EmptyDict, imports |-> EmptyDict,
          global_scope |-> GlobalScope, control_flow |-> <<>>]
ScopeManager ==
    [scopes |-> EmptyDict, variables |-> EmptyDict, functions |-> EmptyDict,
     classes |-> EmptyDict, imports |-> EmptyDict,
     global_scope |-> GlobalScope, control_flow |-> <<>>]

\* self.variables[scope_id] of the defaultdict, without the insertion
VarsAt(sm, scope_id) ==
    IF scope_id \in DOMAIN sm.variables THEN sm.variables[scope_id] ELSE EmptyDict

enter_scope_self(sm, scope_id, parent_scope_id) ==
    [sm EXCEPT !.scopes = Put(@, scope_id, scope_id)]
enter_scope(sm, scope_id, parent_scope_id) ==
    LET parent == IF parent_scope_id = None THEN sm.global_scope ELSE parent_scope_id
    IN  [sm EXCEPT !.scopes = Put(@, scope_id, parent)]

get_parent_scope(sm, scope_id) == Get(sm.scopes, scope_id)

add_variable(sm, var_name, var_id, scope_id) ==
    [sm EXCEPT !.variables = Put(@, scope_id, Put(VarsAt(sm, scope_id), var_name, var_id))]

add_function_first(sm, func_name, func_id) ==
    IF func_name \in DOMAIN sm.functions THEN sm
    ELSE [sm EXCEPT !.functions = Put(@, func_name, func_id)]
add_function(sm, func_name, func_id) == [sm EXCEPT !.functions = Put(@, func_name, func_id)]
add_class(sm, class_name, class_id) == [sm EXCEPT !.classes = Put(@, class_name, class_id)]
add_import(sm, import_name, import_id) == [sm EXCEPT !.imports = Put(@, import_name, import_id)]

find_function(sm, func_name) == Get(sm.functions, func_name)
find_import(sm, import_name) == Get(sm.imports, import_name)

enter_control_flow(sm, node_id) == [sm EXCEPT !.control_flow = Append(@, node_id)]
exit_control_flow(sm) ==
    IF sm.control_flow # <<>>
    THEN [sm EXCEPT !.control_flow = SubSeq(@, 1, Len(@) - 1)]
    ELSE sm

\* find_variable: the walk up the scope chain.  Reading
\* self.variables[current_scope] inserts an empty table for a scope that has
\* none (defaultdict), so the result carries the tables as well as the id.
RECURSIVE find_variable_from(_, _, _)
find_variable_from(sm, var_name, cur) ==
    IF cur = None THEN [ref |-> None, sm |-> sm]
    ELSE LET sm1 == [sm EXCEPT !.variables = Put(@, cur, VarsAt(sm, cur))]
         IN  IF var_name \in DOMAIN sm1.variables[cur]
             THEN [ref |-> sm1.variables[cur][var_name], sm |-> sm1]
             ELSE find_variable_from(sm1, var_name, get_parent_scope(sm1, cur))
find_variable_global(sm, var_name, scope_id) ==
    find_variable_from(sm, var_name, sm.global_scope)
find_variable(sm, var_name, scope_id) == find_variable_from(sm, var_name, scope_id)

----------------------------------------------------------------------------
(* add_enhanced_python_semantic_edges, first pass.  A pass state st is     *)
(* [sm, edges, current_scope]: the ScopeManager, the edge list and the     *)
(* nonlocal current_scope.                                                 *)

\* index of the first element of cs of the given type, 0 when there is none
RECURSIVE FirstOfTypeFrom(_, _, _)
FirstOfTypeFrom(cs, type, i) ==
    IF i > Len(cs) THEN 0
    ELSE IF cs[i].type = type THEN i
    ELSE FirstOfTypeFrom(cs, type, i + 1)
FirstOfType(cs, type) == FirstOfTypeFrom(cs, type, 1)

\* for x in cs: if x["type"] == "identifier": add_variable(x text, x id, scope)
RECURSIVE AddIdentifiers(_, _, _)
AddIdentifiers(cs, sm, scope_id) ==
    IF cs = <<>> THEN sm
    ELSE LET x == Head(cs)
         IN  AddIdentifiers(Tail(cs),
                            IF x.type = "identifier"
                            THEN add_variable(sm, x.text, NodeId(x), scope_id)
                            ELSE sm,
                            scope_id)

\* for param_child in children: if it is "parameters": register its identifiers
RECURSIVE AddParameters(_, _, _)
AddParameters(cs, sm, scope_id) ==
    IF cs = <<>> THEN sm
    ELSE LET param_child == Head(cs)
         IN  AddParameters(Tail(cs),
                           IF param_child.type = "parameters"
                           THEN AddIdentifiers(Children(param_child), sm, scope_id)
                           ELSE sm,
                           scope_id)

\* the function_definition branch: the first identifier child names the
\* function, then the parameters go to the function's scope
DefineFunction(node, st) ==
    LET cs == Children(node)
        i  == FirstOfType(cs, "identifier")
    IN  IF i = 0 THEN st
        ELSE [st EXCEPT !.sm =
                 AddParameters(cs, add_function(st.sm, cs[i].text, NodeId(node)),
                               st.current_scope)]

\* the class_definition branch
DefineClass(node, st) ==
    LET cs == Children(node)
        i  == FirstOfType(cs, "identifier")
    IN  IF i = 0 THEN st
        ELSE [st EXCEPT !.sm = add_class(st.sm, cs[i].text, NodeId(node))]

\* zero-based index of the first child of type "=" that is not the first
\* child, -1 when there is none
RECURSIVE SeparatorFrom(_, _)
SeparatorFrom(cs, i) ==
    IF i > Len(cs) THEN -1
    ELSE IF cs[i].type = "=" /\ i - 1 > 0 THEN i - 1
    ELSE SeparatorFrom(cs, i + 1)

\* for target in targets: identifier, or the identifiers of a tuple / list
RECURSIVE AddTargets(_, _, _)
AddTargets(targets, sm, scope_id) ==
    IF targets = <<>> THEN sm
    ELSE LET target == Head(targets)
             sm1 == IF target.type = "identifier"
                    THEN add_variable(sm, target.text, NodeId(target), scope_id)
                    ELSE IF target.type = "tuple" \/ target.type = "list"
                    THEN AddIdentifiers(Children(target), sm, scope_id)
                    ELSE sm
         IN  AddTargets(Tail(targets), sm1, scope_id)

\* the assignment branch
DefineAssignment(node, st) ==
    LET cs == Children(node)
        i  == SeparatorFrom(cs, 1)
        targets == IF i >= 0 THEN SubSeq(cs, 1, i) ELSE <<>>
    IN  [st EXCEPT !.sm = AddTargets(targets, st.sm, st.current_scope)]

\* the import_statement / import_from_statement branch
RECURSIVE AddImports(_, _)
AddImports(cs, sm) ==
    IF cs = <<>> THEN sm
    ELSE LET child == Head(cs)
         IN  AddImports(Tail(cs),
                        IF child.type = "dotted_name" \/ child.type = "identifier"
                        THEN add_import(sm, child.text, NodeId(child))
                        ELSE sm)

\* the control-flow branch: push the node, edge to its first block child
EnterControlFlowSpan(node, st) ==
    LET cs == Children(node)
        i  == FirstOfType(cs, "block")
        sm1 == enter_control_flow(st.sm, NodeId(node))
    IN  [st EXCEPT !.sm = sm1,
                   !.edges = IF i # 0
                             THEN Append(@, [source |-> NodeId(node),
                                             target |-> <<"block", node.start_byte,
                                                          node.end_byte>>,
                                             type |-> "control_flow"])
                             ELSE @]
EnterControlFlowReversed(node, st) ==
    LET cs == Children(node)
        i  == FirstOfType(cs, "block")
        sm1 == enter_control_flow(st.sm, NodeId(node))
    IN  [st EXCEPT !.sm = sm1,
                   !.edges = IF i # 0
                             THEN Append(@, [source |-> NodeId(cs[i]),
                                             target |-> NodeId(node),
                                             type |-> "control_flow"])
                             ELSE @]
EnterControlFlow(node, st) ==
    LET cs == Children(node)
        i  == FirstOfType(cs, "block")
        sm1 == enter_control_flow(st.sm, NodeId(node))
    IN  [st EXCEPT !.sm = sm1,
                   !.edges = IF i # 0
                             THEN Append(@, [source |-> NodeId(node),
                                             target |-> NodeId(cs[i]),
                                             type |-> "control_flow"])
                             ELSE @]

\* what find_enhanced_definitions does at one node before it turns to the
\* children: the scope it opens, the definitions, the control-flow edge
EnterDefinition(node, st) ==
    LET node_id == NodeId(node)
        st1 == IF node.type \in PYTHON_SCOPE_NODES
               THEN [st EXCEPT !.sm = enter_scope(st.sm, node_id, st.current_scope),
                               !.current_scope = node_id]
               ELSE st
        st2 == CASE node.type = "function_definition" -> DefineFunction(node, st1)
                 [] node.type = "class_definition" -> DefineClass(node, st1)
                 [] node.type = "assignment" -> DefineAssignment(node, st1)
                 [] node.type = "import_statement" \/ node.type = "import_from_statement" ->
                        [st1 EXCEPT !.sm = AddImports(Children(node), st1.sm)]
                 [] OTHER -> st1
    IN  IF node.type \in PYTHON_CONTROL_FLOW_NODES THEN EnterControlFlow(node, st2) ELSE st2
\* and after the children: exit_control_flow, current_scope = old_scope
LeaveDefinition(node, old_scope, st) ==
    LET st5 == IF node.type \in PYTHON_CONTROL_FLOW_NODES
               THEN [st EXCEPT !.sm = exit_control_flow(st.sm)]
               ELSE st
    IN  IF node.type \in PYTHON_SCOPE_NODES
        THEN [st5 EXCEPT !.current_scope = old_scope]
        ELSE st5

RECURSIVE find_enhanced_definitions(_, _), find_definitions_children(_, _, _)
find_enhanced_definitions(node, st) ==
    LET old_scope == st.current_scope
        st3 == EnterDefinition(node, st)
        st4 == find_definitions_children(Children(node), Len(Children(node)), st3)
    IN  LeaveDefinition(node, old_scope, st4)
\* for child in node.get("children", []): find_enhanced_definitions(child),
\* for the first n children
find_definitions_children(cs, n, st) ==
    IF n = 0 THEN st
    ELSE LET before == find_definitions_children(cs, n - 1, st)
         IN  IF before.current_scope # None    \* always: the earlier children are done first
             THEN find_enhanced_definitions(cs[n], before)
             ELSE before

----------------------------------------------------------------------------
(* add_enhanced_python_semantic_edges, second pass.                        *)

\* parent_type of find_enhanced_references: node.get("parent") and its type
ParentType(node) ==
    IF "parent" \in DOMAIN node /\ Truthy(node.parent) THEN node.parent.type ELSE None

DefinitionParents == {"function_definition", "class_definition", "parameter"}

\* the call branch: the first identifier child is the callee
ResolveCall(node, st) ==
    LET cs == Children(node)
        i  == FirstOfType(cs, "identifier")
    IN  IF i = 0 THEN st
        ELSE LET func_node == cs[i]
                 caller_id == NodeId(func_node)
                 func_id == find_function(st.sm, func_node.text)
                 import_id == find_import(st.sm, func_node.text)
                 e1 == IF Truthy(func_id)
                       THEN Append(st.edges, [source |-> caller_id, target |-> func_id,
                                              type |-> "calls"])
                       ELSE st.edges
                 e2 == IF Truthy(import_id)
                       THEN Append(e1, [source |-> caller_id, target |-> import_id,
                                        type |-> "calls_import"])
                       ELSE e1
             IN  [st EXCEPT !.edges = e2]

\* the identifier branch
ResolveIdentifierSelf(node, st) ==
    IF ParentType(node) \notin DefinitionParents
    THEN LET var_id == NodeId(node)
             found == find_variable(st.sm, node.text, st.current_scope)
         IN  [st EXCEPT !.sm = found.sm,
                        !.edges = IF Truthy(found.ref)
                                  THEN Append(@, [source |-> var_id, target |-> found.ref,
                                                  type |-> "references"])
                                  ELSE @]
    ELSE st
ResolveIdentifier(node, st) ==
    IF ParentType(node) \notin DefinitionParents
    THEN LET var_id == NodeId(node)
             found == find_variable(st.sm, node.text, st.current_scope)
         IN  [st EXCEPT !.sm = found.sm,
                        !.edges = IF Truthy(found.ref) /\ found.ref # var_id
                                  THEN Append(@, [source |-> var_id, target |-> found.ref,
                                                  type |-> "references"])
                                  ELSE @]
    ELSE st

RECURSIVE find_enhanced_references(_, _), find_references_children(_, _, _)
find_enhanced_references(node, st) ==
    LET old_scope == st.current_scope
        node_id == NodeId(node)
        is_scope == node.type \in PYTHON_SCOPE_NODES
        st1 == IF is_scope THEN [st EXCEPT !.current_scope = node_id] ELSE st
        st2 == CASE node.type = "call" -> ResolveCall(node, st1)
                 [] node.type = "identifier" -> ResolveIdentifier(node, st1)
                 [] OTHER -> st1
        st3 == find_references_children(Children(node), Len(Children(node)), st2)
    IN  IF is_scope THEN [st3 EXCEPT !.current_scope = old_scope] ELSE st3
\* for child in node.get("children", []): find_enhanced_references(child),
\* for the first n children
find_references_children(cs, n, st) ==
    IF n = 0 THEN st
    ELSE LET before == find_references_children(cs, n - 1, st)
         IN  IF before.current_scope # None    \* always: the earlier children are done first
             THEN find_enhanced_references(cs[n], before)
             ELSE before

----------------------------------------------------------------------------
(* tools.py add_python_semantic_edges: the passes of the basic builder.    *)
(* tb is [functions, variables], the two local dictionaries.               *)

\* functions = {}, variables = {}
NewSymbols == [functions |-> EmptyDict, variables |-> EmptyDict]

\* the assignment branch: every identifier child is stored in the table d
\* of the current scope
RECURSIVE BasicTargets(_, _, _)
BasicTargets(cs, n, d) ==
    IF n = 0 THEN d
    ELSE LET d1 == BasicTargets(cs, n - 1, d)
         IN  IF cs[n].type = "identifier"
             THEN Put(d1, cs[n].text, NodeId(cs[n]))
             ELSE d1

RECURSIVE find_definitions(_, _, _), find_definitions_blocks(_, _, _, _),
          find_definitions_names(_, _, _, _), find_definitions_all(_, _, _, _)
find_definitions(node, scope, tb) ==
    LET cs == Children(node)
        tb1 == CASE node.type = "function_definition" ->
                      find_definitions_names(node, cs, Len(cs), tb)
                 [] node.type = "assignment" ->
                      [tb EXCEPT !.variables =
                          Put(@, scope, BasicTargets(cs, Len(cs), Get(tb.variables, scope)))]
                 [] OTHER -> tb
    IN  find_definitions_all(cs, Len(cs), scope, tb1)
\* for child in children: if identifier: functions[name] = func_id, then the
\* body blocks are processed with the function as scope
find_definitions_names(node, cs, n, tb) ==
    IF n = 0 THEN tb
    ELSE LET before == find_definitions_names(node, cs, n - 1, tb)
         IN  IF cs[n].type = "identifier"
             THEN find_definitions_blocks(
                      cs, Len(cs), NodeId(node),
                      [before EXCEPT !.functions = Put(@, cs[n].text, NodeId(node))])
             ELSE before
\* for body_child in children: if block: find_definitions(body_child, new_scope)
find_definitions_blocks(cs, n, new_scope, tb) ==
    IF n = 0 THEN tb
    ELSE LET before == find_definitions_blocks(cs, n - 1, new_scope, tb)
         IN  IF cs[n].type = "block"
             THEN find_definitions(cs[n], new_scope, before)
             ELSE before
\* for child in children: find_definitions(child, scope)
find_definitions_all(cs, n, scope, tb) ==
    IF n = 0 THEN tb
    ELSE LET before == find_definitions_all(cs, n - 1, scope, tb)
         IN  IF DOMAIN before # {}    \* always: the earlier children are done first
             THEN find_definitions(cs[n], scope, before)
             ELSE before

\* the call branch of find_references: every identifier child naming a function
RECURSIVE BasicCalls(_, _, _, _)
BasicCalls(cs, n, tb, es) ==
    IF n = 0 THEN es
    ELSE LET before == BasicCalls(cs, n - 1, tb, es)
         IN  IF cs[n].type = "identifier" /\ cs[n].text \in DOMAIN tb.functions
             THEN Append(before, [source |-> NodeId(cs[n]),
                                  target |-> tb.functions[cs[n].text],
                                  type |-> "calls"])
             ELSE before

\* the identifier branch of find_references: the while loop looks at scope
\* and then sets current_scope to None
BasicReference(node, scope, tb, es) ==
    IF scope # None /\ scope \in DOMAIN tb.variables
                    /\ node.text \in DOMAIN tb.variables[scope]
                    /\ NodeId(node) # tb.variables[scope][node.text]
    THEN Append(es, [source |-> NodeId(node),
                     target |-> tb.variables[scope][node.text],
                     type |-> "references"])
    ELSE es

RECURSIVE find_references(_, _, _, _), find_references_all(_, _, _, _, _)
find_references(node, scope, tb, es) ==
    LET cs == Children(node)
        es1 == CASE node.type = "call" -> BasicCalls(cs, Len(cs), tb, es)
                 [] node.type = "identifier" -> BasicReference(node, scope, tb, es)
                 [] OTHER -> es
    IN  find_references_all(cs, Len(cs), scope, tb, es1)
find_references_all(cs, n, scope, tb, es) ==
    IF n = 0 THEN es
    ELSE LET before == find_references_all(cs, n - 1, scope, tb, es)
         IN  IF Len(before) >= 0    \* always: the earlier children are done first
             THEN find_references(cs[n], scope, tb, before)
             ELSE before

----------------------------------------------------------------------------
(* The calls of create_enhanced_asg_from_ast and create_asg_from_ast.     *)

\* results of parse_code_to_ast_incremental handed to the graph construction
PythonInputs == {[language |-> "python", ast |-> t] : t \in Trees}
OtherInputs == {[language |-> "javascript", ast |-> t] : t \in ScenarioTrees}
ErrorInputs == {[error |-> "Unsupported language: go"]}
Inputs == PythonInputs \cup OtherInputs \cup ErrorInputs

\* the inputs of a server that handles several calls
CallTrees == {ParseShape(ModuleShape(p)) : p \in SeqsOfCost(1)} \cup ScenarioTrees
CallInputs ==
    {[language |-> "python", ast |-> t] : t \in CallTrees}
        \cup {[language |-> "javascript", ast |-> ParseShape(LiteralShape)]}
        \cup ErrorInputs

\* nodes = [], edges = [], node_ids = {}
StaleLists == [nodes |-> nodes, edges |-> edges, node_ids |-> node_ids]
NewLists == [nodes |-> <<>>, edges |-> <<>>, node_ids |-> EmptyDict]

\* the caches are not in use
NoCache ==
    /\ md5 = EmptyDict
    /\ files = EmptyDict
    /\ AST_CACHE = EmptyDict
    /\ calls = <<>>

\* no traversal is under way
NoWalk ==
    /\ stack = <<>>
    /\ ret = None
    /\ lookup = None
    /\ visited = [definitions |-> EmptyDict, references |-> EmptyDict]

InitCommon ==
    /\ pc = "call"
    /\ nodes = <<>>
    /\ edges = <<>>
    /\ node_ids = EmptyDict
    /\ root_id = None
    /\ scope_manager = None
    /\ current_scope = None
    /\ symbols = None
    /\ result = None
    /\ ncalls = 1
    /\ prev = None
    /\ diff_in = None
    /\ diff_out = None
    /\ pos_in = None
    /\ pos_out = None
    /\ NoWalk
    /\ NoCache

Builders == {"enhanced", "basic"}

Init == ast_data \in Inputs /\ builder \in Builders /\ InitCommon

\* if "error" in ast_data: return ast_data
ReturnError ==
    /\ pc = "call"
    /\ "error" \in DOMAIN ast_data
    /\ result' = ast_data
    /\ pc' = "done"
    /\ UNCHANGED <<builder, ast_data, nodes, edges, node_ids, root_id, scope_manager,
                   current_scope, symbols, ncalls, prev, diff_in, diff_out, pos_in, pos_out, walk, cache>>

ExtractNodesUnderRoot ==
    /\ pc = "call"
    /\ "error" \notin DOMAIN ast_data
    /\ LET st == extract_nodes(ast_data.ast, NodeId(ast_data.ast), NewLists)
       IN  /\ nodes' = st.nodes
           /\ edges' = st.edges
           /\ node_ids' = IF builder = "enhanced" THEN st.node_ids ELSE node_ids
           /\ root_id' = NodeId(ast_data.ast)
    /\ pc' = "lowered"
    /\ UNCHANGED <<builder, ast_data, scope_manager, current_scope, symbols, result,
                   ncalls, prev, diff_in, diff_out, pos_in, pos_out, walk, cache>>
\* root_id = extract_nodes(ast) on fresh lists
ExtractNodes ==
    /\ pc = "call"
    /\ "error" \notin DOMAIN ast_data
    /\ LET st == extract_nodes(ast_data.ast, None, NewLists)
       IN  /\ nodes' = st.nodes
           /\ edges' = st.edges
           /\ node_ids' = IF builder = "enhanced" THEN st.node_ids ELSE node_ids
           /\ root_id' = NodeId(ast_data.ast)
    /\ pc' = "lowered"
    /\ UNCHANGED <<builder, ast_data, scope_manager, current_scope, symbols, result,
                   ncalls, prev, diff_in, diff_out, pos_in, pos_out, walk, cache>>

\* language == "python": scope_manager = ScopeManager(),
\* current_scope = scope_manager.global_scope, find_enhanced_definitions(ast)
FindDefinitions ==
    /\ pc = "lowered"
    /\ builder = "enhanced"
    /\ ast_data.language = "python"
    /\ LET st == find_enhanced_definitions(
                     ast_data.ast,
                     [sm |-> ScopeManager, edges |-> edges,
                      current_scope |-> ScopeManager.global_scope])
       IN  /\ scope_manager' = st.sm
           /\ edges' = st.edges
           /\ current_scope' = st.current_scope
    /\ pc' = "defined"
    /\ UNCHANGED <<builder, ast_data, nodes, node_ids, root_id, symbols, result, ncalls,
                   prev, diff_in, diff_out, pos_in, pos_out, walk, cache>>

\* find_enhanced_references(ast)
FindReferences ==
    /\ pc = "defined"
    /\ builder = "enhanced"
    /\ LET st == find_enhanced_references(
                     ast_data.ast,
                     [sm |-> scope_manager, edges |-> edges,
                      current_scope |-> current_scope])
       IN  /\ scope_manager' = st.sm
           /\ edges' = st.edges
           /\ current_scope' = st.current_scope
    /\ pc' = "resolved"
    /\ UNCHANGED <<builder, ast_data, nodes, node_ids, root_id, symbols, result, ncalls,
                   prev, diff_in, diff_out, pos_in, pos_out, walk, cache>>

\* tools.py: functions = {}, variables = {}, find_definitions(ast)
BasicFindDefinitions ==
    /\ pc = "lowered"
    /\ builder = "basic"
    /\ ast_data.language = "python"
    /\ symbols' = find_definitions(ast_data.ast, None, NewSymbols)
    /\ pc' = "defined"
    /\ UNCHANGED <<builder, ast_data, nodes, edges, node_ids, root_id, scope_manager,
                   current_scope, result, ncalls, prev, diff_in, diff_out, pos_in, pos_out, walk, cache>>

\* tools.py: find_references(ast)
BasicFindReferences ==
    /\ pc = "defined"
    /\ builder = "basic"
    /\ edges' = find_references(ast_data.ast, None, symbols, edges)
    /\ pc' = "resolved"
    /\ UNCHANGED <<builder, ast_data, nodes, node_ids, root_id, scope_manager,
                   current_scope, symbols, result, ncalls, prev, diff_in, diff_out, pos_in, pos_out, walk, cache>>

\* any other language: add_enhanced_js_ts_semantic_edges is a placeholder,
\* and a language outside the two branches adds nothing either
AddJsTsEdges ==
    /\ pc = "lowered"
    /\ ast_data.language # "python"
    /\ pc' = "resolved"
    /\ UNCHANGED <<builder, ast_data, nodes, edges, node_ids, root_id, scope_manager,
                   current_scope, symbols, result, ncalls, prev, diff_in, diff_out, pos_in, pos_out, walk, cache>>

ReturnGraphShifted ==
    /\ pc = "resolved"
    /\ result' = IF builder = "enhanced"
                 THEN [language |-> ast_data.language, nodes |-> nodes, edges |-> edges,
                       root |-> root_id, node_lookup |-> [id \in DOMAIN node_ids |-> node_ids[id] + 1]]
                 ELSE [language |-> ast_data.language, nodes |-> nodes, edges |-> edges,
                       root |-> root_id]
    /\ pc' = "done"
    /\ UNCHANGED <<builder, ast_data, nodes, edges, node_ids, root_id, scope_manager,
                   current_scope, symbols, ncalls, prev, diff_in, diff_out, pos_in, pos_out, walk, cache>>
\* return {"language", "nodes", "edges", "root"}, and "node_lookup" in the
\* enhanced builder
ReturnGraph ==
    /\ pc = "resolved"
    /\ result' = IF builder = "enhanced"
                 THEN [language |-> ast_data.language, nodes |-> nodes, edges |-> edges,
                       root |-> root_id, node_lookup |-> node_ids]
                 ELSE [language |-> ast_data.language, nodes |-> nodes, edges |-> edges,
                       root |-> root_id]
    /\ pc' = "done"
    /\ UNCHANGED <<builder, ast_data, nodes, edges, node_ids, root_id, scope_manager,
                   current_scope, symbols, ncalls, prev, diff_in, diff_out, pos_in, pos_out, walk, cache>>

Next ==
    \/ ReturnError
    \/ ExtractNodes
    \/ FindDefinitions
    \/ FindReferences
    \/ BasicFindDefinitions
    \/ BasicFindReferences
    \/ AddJsTsEdges
    \/ ReturnGraph

Spec == Init /\ [][Next]_vars

\* the next request arrives; the locals of the finished call are garbage
NewCall ==
    /\ pc = "done"
    /\ ncalls < MaxCalls
    /\ \E a \in CallInputs : ast_data' = a
    /\ \E b \in Builders : builder' = b
    /\ prev' = [builder |-> builder, arg |-> ast_data, res |-> result]
    /\ ncalls' = ncalls + 1
    /\ pc' = "call"
    /\ UNCHANGED <<nodes, edges, node_ids, root_id, scope_manager, current_scope,
                   symbols, result, diff_in, diff_out, pos_in, pos_out, walk, cache>>

InitCalls == ast_data \in CallInputs /\ builder \in Builders /\ InitCommon

NextCalls == Next \/ NewCall

SpecCalls == InitCalls /\ [][NextCalls]_vars

----------------------------------------------------------------------------
(* generate_ast_diff.  A tree object of the parser is known by the text it *)
(* was parsed from; the ranges the parser reports between two of them are  *)
(* an input: none for two trees of the same text, otherwise any ascending  *)
(* list of disjoint byte ranges of the new text.                           *)

\* (row, column) of a byte offset of a text
PointAt(text, byte) ==
    LET breaks == {k \in 1..byte : text[k] = "\n"}
    IN  <<Cardinality(breaks),
          byte - (IF breaks = {} THEN 0
                  ELSE CHOOSE k \in breaks : \A j \in breaks : j <= k)>>

Edit(text, start, end) ==
    [start_byte |-> start, end_byte |-> end,
     start_point |-> PointAt(text, start), end_point |-> PointAt(text, end)]

RECURSIVE Boundaries(_), BoundariesOfKids(_, _)
Boundaries(node) ==
    {node.start_byte, node.end_byte}
        \cup BoundariesOfKids(Children(node), Len(Children(node)))
BoundariesOfKids(cs, n) ==
    IF n = 0 THEN {} ELSE BoundariesOfKids(cs, n - 1) \cup Boundaries(cs[n])

RECURSIVE EditsFrom(_, _, _, _)
EditsFrom(text, points, lo, k) ==
    {<<>>} \cup
    (IF k = 0 THEN {}
     ELSE UNION {UNION {{<<Edit(text, sp, ep)>> \o rest :
                            rest \in EditsFrom(text, points, ep, k - 1)} :
                               ep \in {y \in points : y > sp}} :
                     sp \in {x \in points : x >= lo}})

get_changed_ranges(new_tree, old_tree, ast) ==
    IF new_tree.text = old_tree.text THEN {<<>>}
    ELSE EditsFrom(new_tree.text, Boundaries(ast), 0, MaxRanges)

\* the result of parse_code_to_ast_incremental and of parse_code_to_ast
ParsedIncremental(t) ==
    [language |-> "python", ast |-> t, tree_object |-> [text |-> t.text]]
ParsedPlain(t) == [language |-> "python", ast |-> t]

DiffTrees ==
    {ParseShape(ModuleShape(p)) : p \in SeqsOfCost(1)}
        \cup {ParseShape(PositionShape), ParseShape(LiteralShape),
              ParseShape(EditedLiteralShape)}

DiffArgs ==
    {ParsedIncremental(t) : t \in DiffTrees}
        \cup {ParsedPlain(ParseShape(LiteralShape))}
        \cup ErrorInputs

\* a tree is diffed against itself or against the tree of x = 1; either
\* parse may have failed
DiffPairs ==
    {<<o, n>> \in DiffArgs \X DiffArgs :
        \/ o = n
        \/ "error" \in DOMAIN o
        \/ "ast" \in DOMAIN o /\ o.ast = ParseShape(LiteralShape)}

DiffInputs ==
    UNION {IF "tree_object" \in DOMAIN p[1] /\ "tree_object" \in DOMAIN p[2]
           THEN {[ast_old |-> p[1], ast_new |-> p[2], reported |-> r] :
                     r \in get_changed_ranges(p[2].tree_object, p[1].tree_object,
                                              p[2].ast)}
           ELSE {[ast_old |-> p[1], ast_new |-> p[2], reported |-> <<>>]} :
               p \in DiffPairs}

\* not (node_end <= r["start_byte"] or node_start >= r["end_byte"])
Overlaps(node, r) ==
    ~(node.end_byte <= r.start_byte \/ node.start_byte >= r.end_byte)

InEveryChangedRange(node, ranges) ==
    \A k \in 1..Len(ranges) : Overlaps(node, ranges[k])
InChangedRange(node, ranges) ==
    \E k \in 1..Len(ranges) : Overlaps(node, ranges[k])

\* the children are searched before the node itself is tested
RECURSIVE find_deepest_in_range(_, _, _), find_deepest_in_children(_, _, _, _)
find_deepest_in_range(node, ranges, changed_nodes) ==
    LET below == find_deepest_in_children(Children(node), Len(Children(node)), ranges,
                                          changed_nodes)
    IN  IF below.found THEN below
        ELSE IF InChangedRange(node, ranges)
             THEN [found |-> TRUE, changed_nodes |-> Append(changed_nodes, node)]
             ELSE [found |-> FALSE, changed_nodes |-> changed_nodes]
find_deepest_in_children(cs, n, ranges, changed_nodes) ==
    IF n = 0 THEN [found |-> FALSE, changed_nodes |-> changed_nodes]
    ELSE LET before == find_deepest_in_children(cs, n - 1, ranges, changed_nodes)
         IN  IF before.found THEN before
             ELSE find_deepest_in_range(cs[n], ranges, before.changed_nodes)

\* st = [found, changed_nodes]
RECURSIVE find_nodes_in_range(_, _, _), find_nodes_in_children(_, _, _, _)
find_nodes_in_range(node, ranges, changed_nodes) ==
    IF InChangedRange(node, ranges)
    THEN [found |-> TRUE, changed_nodes |-> Append(changed_nodes, node)]
    ELSE find_nodes_in_children(Children(node), Len(Children(node)), ranges, changed_nodes)
find_nodes_in_children(cs, n, ranges, changed_nodes) ==
    IF n = 0 THEN [found |-> FALSE, changed_nodes |-> changed_nodes]
    ELSE LET before == find_nodes_in_children(cs, n - 1, ranges, changed_nodes)
         IN  IF before.found THEN before
             ELSE find_nodes_in_range(cs[n], ranges, before.changed_nodes)

InitDiff ==
    /\ pc = "diff"
    /\ diff_in \in DiffInputs
    /\ diff_out = None
    /\ pos_in = None
    /\ pos_out = None
    /\ builder = "enhanced"
    /\ ast_data = None
    /\ nodes = <<>>
    /\ edges = <<>>
    /\ node_ids = EmptyDict
    /\ root_id = None
    /\ scope_manager = None
    /\ current_scope = None
    /\ symbols = None
    /\ result = None
    /\ ncalls = 1
    /\ prev = None
    /\ NoWalk
    /\ NoCache

\* diff_ast: if "error" in ast_old: return ast_old; if "error" in ast_new:
\* return ast_new
DiffAstError ==
    /\ pc = "diff"
    /\ "error" \in DOMAIN diff_in.ast_old \/ "error" \in DOMAIN diff_in.ast_new
    /\ diff_out' = IF "error" \in DOMAIN diff_in.ast_old THEN diff_in.ast_old
                   ELSE diff_in.ast_new
    /\ pc' = "diffed"
    /\ UNCHANGED <<builder, ast_data, nodes, edges, node_ids, root_id, scope_manager,
                   current_scope, symbols, result, ncalls, prev, diff_in, pos_in, pos_out, walk, cache>>

EmptyDiff == [changed_ranges |-> <<>>, changed_nodes |-> <<>>]
MissingTreeError == [error |-> "Both ASTs must have tree_object property for diffing"]

\* if "tree_object" not in ast_old or "tree_object" not in ast_new: return error
DiffMissingTree ==
    /\ pc = "diff"
    /\ ~("tree_object" \in DOMAIN diff_in.ast_old /\ "tree_object" \in DOMAIN diff_in.ast_new)
    /\ diff_out' = MissingTreeError
    /\ pc' = "diffed"
    /\ UNCHANGED <<builder, ast_data, nodes, edges, node_ids, root_id, scope_manager,
                   current_scope, symbols, result, ncalls, prev, diff_in, pos_in, pos_out, walk, cache>>

\* changed_ranges = [...] from the ranges the parser reports
ChangedRanges ==
    /\ pc = "diff"
    /\ "tree_object" \in DOMAIN diff_in.ast_old
    /\ "tree_object" \in DOMAIN diff_in.ast_new
    /\ diff_out' =
           [changed_ranges |->
                [k \in 1..Len(diff_in.reported) |->
                    LET edit == diff_in.reported[k]
                    IN  [start_byte |-> edit.start_byte,
                         end_byte |-> edit.end_byte,
                         start_point |-> [row |-> edit.start_point[1],
                                          column |-> edit.start_point[2]],
                         end_point |-> [row |-> edit.end_point[1],
                                        column |-> edit.end_point[2]]]],
            changed_nodes |-> <<>>]
    /\ pc' = "ranged"
    /\ UNCHANGED <<builder, ast_data, nodes, edges, node_ids, root_id, scope_manager,
                   current_scope, symbols, result, ncalls, prev, diff_in, pos_in, pos_out, walk, cache>>

\* every node of a subtree that lies in a changed range, in pre-order
RECURSIVE AllNodesInRange(_, _), AllNodesInRangeOfKids(_, _, _)
AllNodesInRange(node, ranges) ==
    (IF InChangedRange(node, ranges) THEN <<node>> ELSE <<>>)
        \o AllNodesInRangeOfKids(Children(node), Len(Children(node)), ranges)
AllNodesInRangeOfKids(cs, n, ranges) ==
    IF n = 0 THEN <<>>
    ELSE AllNodesInRangeOfKids(cs, n - 1, ranges) \o AllNodesInRange(cs[n], ranges)

FindEveryNodeInRange ==
    /\ pc = "ranged"
    /\ diff_out' =
           [language |-> diff_in.ast_new.language,
            changed_ranges |-> diff_out.changed_ranges,
            changed_nodes |-> AllNodesInRange(diff_in.ast_new.ast, diff_out.changed_ranges),
            old_ast |-> diff_in.ast_old.ast,
            new_ast |-> diff_in.ast_new.ast]
    /\ pc' = "diffed"
    /\ UNCHANGED <<builder, ast_data, nodes, edges, node_ids, root_id, scope_manager,
                   current_scope, symbols, result, ncalls, prev, diff_in, pos_in, pos_out, walk, cache>>
\* find_nodes_in_range(ast_new["ast"], changed_ranges) and the returned dict
FindNodesInRange ==
    /\ pc = "ranged"
    /\ diff_out' =
           [language |-> diff_in.ast_new.language,
            changed_ranges |-> diff_out.changed_ranges,
            changed_nodes |->
                find_nodes_in_range(diff_in.ast_new.ast, diff_out.changed_ranges,
                                    diff_out.changed_nodes).changed_nodes,
            old_ast |-> diff_in.ast_old.ast,
            new_ast |-> diff_in.ast_new.ast]
    /\ pc' = "diffed"
    /\ UNCHANGED <<builder, ast_data, nodes, edges, node_ids, root_id, scope_manager,
                   current_scope, symbols, result, ncalls, prev, diff_in, pos_in, pos_out, walk, cache>>

NextDiff == DiffAstError \/ DiffMissingTree \/ ChangedRanges \/ FindNodesInRange

SpecDiff == InitDiff /\ [][NextDiff]_vars

----------------------------------------------------------------------------
(* get_node_by_position and the tool find_node_at_position.                *)

MatchesRows(node, line, column) ==
    node.start_point.row <= line /\ line <= node.end_point.row
\* the position is within this node's range
Matches(node, line, column) ==
    /\ node.start_point.row <= line /\ line <= node.end_point.row
    /\ ~(node.start_point.row = line /\ column < node.start_point.column)
    /\ ~(node.end_point.row = line /\ column > node.end_point.column)

FirstMatch(node, best_match, child_match) ==
    IF child_match # None /\ best_match = node THEN child_match ELSE best_match
\* if child_match is not None: best_match = child_match
BetterMatch(node, best_match, child_match) ==
    IF child_match # None THEN child_match ELSE best_match

RECURSIVE find_node(_, _, _), find_node_children(_, _, _, _, _)
find_node(node, line, column) ==
    IF Matches(node, line, column)
    THEN find_node_children(Children(node), Len(Children(node)), node, line, column)
    ELSE None
\* best_match after the first n children
find_node_children(cs, n, node, line, column) ==
    IF n = 0 THEN node
    ELSE BetterMatch(node, find_node_children(cs, n - 1, node, line, column),
                     find_node(cs[n], line, column))

get_node_below_root(ast, line, column) ==
    IF find_node(ast.ast, line, column) = ast.ast THEN None
    ELSE find_node(ast.ast, line, column)
get_node_by_position(ast, line, column) == find_node(ast.ast, line, column)

PositionTrees ==
    {ParseShape(ModuleShape(p)) : p \in SeqsOfCost(1) \cup SeqsOfCost(2)}
        \cup ScenarioTrees

PositionInputs ==
    {[ast_data |-> a, line |-> l, column |-> c] :
        a \in {ParsedIncremental(t) : t \in PositionTrees} \cup ErrorInputs,
        l \in 0..MaxLine, c \in 0..MaxColumn}

InitPosition ==
    /\ pc = "position"
    /\ pos_in \in PositionInputs
    /\ pos_out = None
    /\ diff_in = None
    /\ diff_out = None
    /\ builder = "enhanced"
    /\ ast_data = None
    /\ nodes = <<>>
    /\ edges = <<>>
    /\ node_ids = EmptyDict
    /\ root_id = None
    /\ scope_manager = None
    /\ current_scope = None
    /\ symbols = None
    /\ result = None
    /\ ncalls = 1
    /\ prev = None
    /\ NoWalk
    /\ NoCache

\* if "error" in ast_data: return ast_data
PositionParseError ==
    /\ pc = "position"
    /\ "error" \in DOMAIN pos_in.ast_data
    /\ pos_out' = pos_in.ast_data
    /\ pc' = "answered"
    /\ UNCHANGED <<builder, ast_data, nodes, edges, node_ids, root_id, scope_manager,
                   current_scope, symbols, result, ncalls, prev, diff_in, diff_out, pos_in, walk, cache>>

\* node = get_node_by_position(ast_data, line, column)
GetNodeByPosition ==
    /\ pc = "position"
    /\ "error" \notin DOMAIN pos_in.ast_data
    /\ pos_out' = get_node_by_position(pos_in.ast_data, pos_in.line, pos_in.column)
    /\ pc' = "found"
    /\ UNCHANGED <<builder, ast_data, nodes, edges, node_ids, root_id, scope_manager,
                   current_scope, symbols, result, ncalls, prev, diff_in, diff_out, pos_in, walk, cache>>

\* if node: return {"node": ..., "language": ...} else: return {"error": ...}
ReturnNodeAtPosition ==
    /\ pc = "found"
    /\ pos_out' = IF pos_out # None
                  THEN [node |-> pos_out, language |-> pos_in.ast_data.language]
                  ELSE [error |-> <<"No node found at position", pos_in.line, pos_in.column>>]
    /\ pc' = "answered"
    /\ UNCHANGED <<builder, ast_data, nodes, edges, node_ids, root_id, scope_manager,
                   current_scope, symbols, result, ncalls, prev, diff_in, diff_out, pos_in, walk, cache>>

NextPosition == PositionParseError \/ GetNodeByPosition \/ ReturnNodeAtPosition

SpecPosition == InitPosition /\ [][NextPosition]_vars

----------------------------------------------------------------------------
(* The same traversals one recursive call at a time.  A frame of stack is  *)
(* one activation of the recursive function that is running: its node, the *)
(* number of children its for loop has handed on, and its locals old_scope *)
(* and best_match.  The interpreter runs one thread and every action below *)
(* is the next statement of that thread, so an enabled step is taken.      *)

Frame(node, old_scope, best_match) ==
    [node |-> node, i |-> 0, old_scope |-> old_scope, best_match |-> best_match]
Top == stack[Len(stack)]
Pop == SubSeq(stack, 1, Len(stack) - 1)
NextChild == Children(Top.node)[Top.i + 1]
Advance == [stack EXCEPT ![Len(stack)].i = @ + 1]
MoreChildren == stack # <<>> /\ Top.i < Len(Children(Top.node))
NoMoreChildren == stack # <<>> /\ Top.i = Len(Children(Top.node))

\* root_id = extract_nodes(ast): the call on the root
CallExtractNodes ==
    /\ pc = "call"
    /\ "error" \notin DOMAIN ast_data
    /\ LET st == LowerNode(ast_data.ast, None, NewLists)
       IN  /\ nodes' = st.nodes
           /\ edges' = st.edges
           /\ node_ids' = st.node_ids
    /\ stack' = <<Frame(ast_data.ast, None, None)>>
    /\ pc' = "extract_nodes"
    /\ UNCHANGED <<builder, ast_data, root_id, scope_manager, current_scope, symbols,
                   result, ncalls, prev, diff_in, diff_out, pos_in, pos_out,
                   ret, lookup, visited, cache>>

\* for child in node["children"]: extract_nodes(child, node_id)
ExtractChild ==
    /\ pc = "extract_nodes"
    /\ MoreChildren
    /\ LET st == LowerNode(NextChild, NodeId(Top.node),
                           [nodes |-> nodes, edges |-> edges, node_ids |-> node_ids])
       IN  /\ nodes' = st.nodes
           /\ edges' = st.edges
           /\ node_ids' = st.node_ids
    /\ stack' = Append(Advance, Frame(NextChild, None, None))
    /\ UNCHANGED <<pc, builder, ast_data, root_id, scope_manager, current_scope, symbols,
                   result, ncalls, prev, diff_in, diff_out, pos_in, pos_out,
                   ret, lookup, visited, cache>>

\* return node_id
ExtractReturn ==
    /\ pc = "extract_nodes"
    /\ NoMoreChildren
    /\ stack' = Pop
    /\ IF Len(stack) = 1
       THEN root_id' = NodeId(Top.node) /\ pc' = "lowered"
       ELSE UNCHANGED <<root_id, pc, cache>>
    /\ UNCHANGED <<builder, ast_data, nodes, edges, node_ids, scope_manager, current_scope,
                   symbols, result, ncalls, prev, diff_in, diff_out, pos_in, pos_out,
                   ret, lookup, visited, cache>>

\* one activation of find_enhanced_definitions up to its for loop, above
\* the frames rest
PushDefinition(node, sm, rest) ==
    LET st == EnterDefinition(node, [sm |-> sm, edges |-> edges,
                                     current_scope |-> current_scope])
    IN  /\ scope_manager' = st.sm
        /\ edges' = st.edges
        /\ current_scope' = st.current_scope
        /\ visited' = [visited EXCEPT
                           !.definitions = Put(@, NodeId(node), st.current_scope)]
        /\ stack' = Append(rest, Frame(node, current_scope, None))

\* scope_manager = ScopeManager(); current_scope = scope_manager.global_scope;
\* find_enhanced_definitions(ast)
CallFindDefinitions ==
    /\ pc = "lowered"
    /\ ast_data.language = "python"
    /\ LET st == EnterDefinition(ast_data.ast,
                                 [sm |-> ScopeManager, edges |-> edges,
                                  current_scope |-> ScopeManager.global_scope])
       IN  /\ scope_manager' = st.sm
           /\ edges' = st.edges
           /\ current_scope' = st.current_scope
           /\ visited' = [visited EXCEPT
                              !.definitions = Put(@, NodeId(ast_data.ast), st.current_scope)]
    /\ stack' = <<Frame(ast_data.ast, ScopeManager.global_scope, None)>>
    /\ pc' = "find_enhanced_definitions"
    /\ UNCHANGED <<builder, ast_data, nodes, node_ids, root_id, symbols, result, ncalls,
                   prev, diff_in, diff_out, pos_in, pos_out, ret, lookup, cache>>

\* for child in node.get("children", []): find_enhanced_definitions(child, current_scope)
DefinitionsChild ==
    /\ pc = "find_enhanced_definitions"
    /\ MoreChildren
    /\ PushDefinition(NextChild, scope_manager, Advance)
    /\ UNCHANGED <<pc, builder, ast_data, nodes, node_ids, root_id, symbols, result, ncalls,
                   prev, diff_in, diff_out, pos_in, pos_out, ret, lookup, cache>>

\* the end of an activation: exit_control_flow, current_scope = old_scope
DefinitionsReturn ==
    /\ pc = "find_enhanced_definitions"
    /\ NoMoreChildren
    /\ LET st == LeaveDefinition(Top.node, Top.old_scope,
                                 [sm |-> scope_manager, edges |-> edges,
                                  current_scope |-> current_scope])
       IN  /\ scope_manager' = st.sm
           /\ current_scope' = st.current_scope
    /\ stack' = Pop
    /\ pc' = IF Len(stack) = 1 THEN "defined" ELSE pc
    /\ UNCHANGED <<builder, ast_data, nodes, edges, node_ids, root_id, symbols, result,
                   ncalls, prev, diff_in, diff_out, pos_in, pos_out, ret, lookup, visited, cache>>

\* the scope an activation of find_enhanced_references works in
ReferenceScopeStale(node) == current_scope
ReferenceScope(node) ==
    IF node.type \in PYTHON_SCOPE_NODES THEN NodeId(node) ELSE current_scope

\* one activation of find_enhanced_references up to its for loop; at an
\* identifier it is inside scope_manager.find_variable(var_name, current_scope)
PushReference(node, rest) ==
    LET cur == ReferenceScope(node)
    IN  /\ current_scope' = cur
        /\ visited' = [visited EXCEPT !.references = Put(@, NodeId(node), cur)]
        /\ stack' = Append(rest, Frame(node, current_scope, None))
        /\ edges' = IF node.type = "call"
                    THEN ResolveCall(node, [sm |-> scope_manager, edges |-> edges,
                                            current_scope |-> cur]).edges
                    ELSE edges
        /\ lookup' = IF node.type = "identifier" /\ ParentType(node) \notin DefinitionParents
                     THEN [var_name |-> node.text, var_id |-> NodeId(node),
                           current_scope |-> cur]
                     ELSE None

\* find_enhanced_references(ast)
CallFindReferences ==
    /\ pc = "defined"
    /\ PushReference(ast_data.ast, <<>>)
    /\ pc' = "find_enhanced_references"
    /\ UNCHANGED <<builder, ast_data, nodes, node_ids, root_id, scope_manager, symbols,
                   result, ncalls, prev, diff_in, diff_out, pos_in, pos_out, ret, cache>>

\* for child in node.get("children", []): find_enhanced_references(child, current_scope)
ReferencesChild ==
    /\ pc = "find_enhanced_references"
    /\ lookup = None
    /\ MoreChildren
    /\ PushReference(NextChild, Advance)
    /\ UNCHANGED <<pc, builder, ast_data, nodes, node_ids, root_id, scope_manager, symbols,
                   result, ncalls, prev, diff_in, diff_out, pos_in, pos_out, ret, cache>>

\* one turn of the while loop of find_variable whose local current_scope is
\* cur: the variable's id when this scope has it, else the parent scope
find_variable_stay(sm, var_name, cur) ==
    LET sm1 == [sm EXCEPT !.variables = Put(@, cur, VarsAt(sm, cur))]
    IN  IF var_name \in DOMAIN sm1.variables[cur]
        THEN [returned |-> TRUE, ref |-> sm1.variables[cur][var_name], sm |-> sm1,
              current_scope |-> cur]
        ELSE [returned |-> FALSE, ref |-> None, sm |-> sm1, current_scope |-> cur]
find_variable_turn(sm, var_name, cur) ==
    LET sm1 == [sm EXCEPT !.variables = Put(@, cur, VarsAt(sm, cur))]
    IN  IF var_name \in DOMAIN sm1.variables[cur]
        THEN [returned |-> TRUE, ref |-> sm1.variables[cur][var_name], sm |-> sm1,
              current_scope |-> cur]
        ELSE [returned |-> FALSE, ref |-> None, sm |-> sm1,
              current_scope |-> get_parent_scope(sm1, cur)]

\* while current_scope is not None: ...; return None.  When find_variable
\* returns, the identifier branch appends its references edge.
FindVariableStep ==
    /\ pc = "find_enhanced_references"
    /\ lookup # None
    /\ IF lookup.current_scope = None
       THEN lookup' = None /\ UNCHANGED <<scope_manager, edges, cache>>
       ELSE LET turn == find_variable_turn(scope_manager, lookup.var_name,
                                           lookup.current_scope)
            IN  /\ scope_manager' = turn.sm
                /\ IF turn.returned
                   THEN /\ lookup' = None
                        /\ edges' = IF Truthy(turn.ref) /\ turn.ref # lookup.var_id
                                    THEN Append(edges, [source |-> lookup.var_id,
                                                        target |-> turn.ref,
                                                        type |-> "references"])
                                    ELSE edges
                   ELSE /\ lookup' = [lookup EXCEPT !.current_scope = turn.current_scope]
                        /\ UNCHANGED edges
    /\ UNCHANGED <<pc, builder, ast_data, nodes, node_ids, root_id, current_scope, symbols,
                   result, ncalls, prev, diff_in, diff_out, pos_in, pos_out,
                   stack, ret, visited, cache>>

\* the end of an activation: current_scope = old_scope
ReferencesReturn ==
    /\ pc = "find_enhanced_references"
    /\ lookup = None
    /\ NoMoreChildren
    /\ current_scope' = IF Top.node.type \in PYTHON_SCOPE_NODES THEN Top.old_scope
                        ELSE current_scope
    /\ stack' = Pop
    /\ pc' = IF Len(stack) = 1 THEN "resolved" ELSE pc
    /\ UNCHANGED <<builder, ast_data, nodes, edges, node_ids, root_id, scope_manager,
                   symbols, result, ncalls, prev, diff_in, diff_out, pos_in, pos_out,
                   ret, lookup, visited, cache>>

\* one activation of find_nodes_in_range up to its for loop: a node in a
\* changed range is appended and the activation returns True at once
EnterRange(node, rest) ==
    IF InChangedRange(node, diff_out.changed_ranges)
    THEN /\ diff_out' = [diff_out EXCEPT !.changed_nodes = Append(@, node)]
         /\ ret' = <<TRUE>>
         /\ stack' = rest
    ELSE /\ ret' = None
         /\ stack' = Append(rest, Frame(node, None, None))
         /\ UNCHANGED diff_out

\* find_nodes_in_range(ast_new["ast"], changed_ranges)
CallFindNodesInRange ==
    /\ pc = "ranged"
    /\ EnterRange(diff_in.ast_new.ast, <<>>)
    /\ pc' = "find_nodes_in_range"
    /\ UNCHANGED <<builder, ast_data, nodes, edges, node_ids, root_id, scope_manager,
                   current_scope, symbols, result, ncalls, prev, diff_in, pos_in, pos_out,
                   lookup, visited, cache>>

\* for child in node.get("children", []): if find_nodes_in_range(child, ranges)
RangeChild ==
    /\ pc = "find_nodes_in_range"
    /\ ret # <<TRUE>>
    /\ MoreChildren
    /\ EnterRange(NextChild, Advance)
    /\ UNCHANGED <<pc, builder, ast_data, nodes, edges, node_ids, root_id, scope_manager,
                   current_scope, symbols, result, ncalls, prev, diff_in, pos_in, pos_out,
                   lookup, visited, cache>>

\* return True after a child returned True, return False after the last child
RangeReturn ==
    /\ pc = "find_nodes_in_range"
    /\ stack # <<>>
    /\ ret = <<TRUE>> \/ Top.i = Len(Children(Top.node))
    /\ ret' = <<ret = <<TRUE>>>>
    /\ stack' = Pop
    /\ UNCHANGED <<pc, builder, ast_data, nodes, edges, node_ids, root_id, scope_manager,
                   current_scope, symbols, result, ncalls, prev, diff_in, diff_out,
                   pos_in, pos_out, lookup, visited, cache>>

\* the dictionary generate_ast_diff returns
ReturnDiff ==
    /\ pc = "find_nodes_in_range"
    /\ stack = <<>>
    /\ diff_out' = [language |-> diff_in.ast_new.language,
                    changed_ranges |-> diff_out.changed_ranges,
                    changed_nodes |-> diff_out.changed_nodes,
                    old_ast |-> diff_in.ast_old.ast,
                    new_ast |-> diff_in.ast_new.ast]
    /\ ret' = None
    /\ pc' = "diffed"
    /\ UNCHANGED <<builder, ast_data, nodes, edges, node_ids, root_id, scope_manager,
                   current_scope, symbols, result, ncalls, prev, diff_in, pos_in, pos_out,
                   stack, lookup, visited, cache>>

\* return find_node(ast["ast"]): the call on the root
CallFindNode ==
    /\ pc = "position"
    /\ "error" \notin DOMAIN pos_in.ast_data
    /\ IF Matches(pos_in.ast_data.ast, pos_in.line, pos_in.column)
       THEN /\ stack' = <<Frame(pos_in.ast_data.ast, None, pos_in.ast_data.ast)>>
            /\ pc' = "find_node"
            /\ UNCHANGED pos_out
       ELSE /\ pos_out' = None
            /\ pc' = "found"
            /\ UNCHANGED stack
    /\ UNCHANGED <<builder, ast_data, nodes, edges, node_ids, root_id, scope_manager,
                   current_scope, symbols, result, ncalls, prev, diff_in, diff_out, pos_in,
                   ret, lookup, visited, cache>>

\* child_match = find_node(child): a child off the position returns None at
\* once and best_match stays
NodeChild ==
    /\ pc = "find_node"
    /\ MoreChildren
    /\ stack' = IF Matches(NextChild, pos_in.line, pos_in.column)
                THEN Append(Advance, Frame(NextChild, None, NextChild))
                ELSE [Advance EXCEPT ![Len(stack)].best_match =
                                         BetterMatch(Top.node, @, None)]
    /\ UNCHANGED <<pc, builder, ast_data, nodes, edges, node_ids, root_id, scope_manager,
                   current_scope, symbols, result, ncalls, prev, diff_in, diff_out,
                   pos_in, pos_out, ret, lookup, visited, cache>>

\* return best_match, which the caller takes for its own best_match
NodeReturn ==
    /\ pc = "find_node"
    /\ NoMoreChildren
    /\ IF Len(stack) = 1
       THEN /\ pos_out' = Top.best_match
            /\ pc' = "found"
            /\ stack' = <<>>
       ELSE /\ stack' = [Pop EXCEPT ![Len(stack) - 1].best_match =
                                        BetterMatch(stack[Len(stack) - 1].node, @,
                                                    Top.best_match)]
            /\ UNCHANGED <<pos_out, pc, cache>>
    /\ UNCHANGED <<builder, ast_data, nodes, edges, node_ids, root_id, scope_manager,
                   current_scope, symbols, result, ncalls, prev, diff_in, diff_out, pos_in,
                   ret, lookup, visited, cache>>

\* the calls whose traversals are followed frame by frame
StepInputs ==
    CallInputs
        \cup {[language |-> "python", ast |-> ParseShape(ModuleShape(p))] :
                  p \in SeqsOfCost(2)}
        \cup {[language |-> "python", ast |-> t] : t \in StatementTrees}
StepPositionTrees == {ParseShape(PositionShape), ParseShape(ShadowShape)}

InitSteps ==
    \/ ast_data \in StepInputs /\ builder = "enhanced" /\ InitCommon
    \/ InitDiff
    \/ InitPosition /\ "ast" \in DOMAIN pos_in.ast_data
                    /\ pos_in.ast_data.ast \in StepPositionTrees

NextSteps ==
    \/ ReturnError
    \/ CallExtractNodes
    \/ ExtractChild
    \/ ExtractReturn
    \/ CallFindDefinitions
    \/ DefinitionsChild
    \/ DefinitionsReturn
    \/ CallFindReferences
    \/ ReferencesChild
    \/ FindVariableStep
    \/ ReferencesReturn
    \/ AddJsTsEdges
    \/ ReturnGraph
    \/ DiffAstError
    \/ DiffMissingTree
    \/ ChangedRanges
    \/ CallFindNodesInRange
    \/ RangeChild
    \/ RangeReturn
    \/ ReturnDiff
    \/ CallFindNode
    \/ NodeChild
    \/ NodeReturn
    \/ ReturnNodeAtPosition

SpecSteps == InitSteps /\ [][NextSteps]_vars /\ WF_vars(NextSteps)

----------------------------------------------------------------------------
(* server.py and resources.py: the caching tools and the resources.  The   *)
(* calls name their language; the cache directory is empty when the server *)
(* starts and its files can be written and read.                           *)

\* tools.py LANGUAGE_MAP
LANGUAGE_MAP ==
    [py |-> "python", python |-> "python", js |-> "javascript",
     javascript |-> "javascript", ts |-> "typescript", typescript |-> "typescript",
     tsx |-> "tsx", go |-> "go", golang |-> "go", rs |-> "rust", rust |-> "rust",
     c |-> "c", cpp |-> "cpp", java |-> "java"] @@ ("c++" :> "cpp")

\* tools.py languages once init_parsers has loaded LANGUAGE_MODULES
languages == {"python", "javascript"}

\* x = 1 as the javascript grammar sees it
JsLiteralShape ==
    Inner("program",
          <<OnLine(Inner("expression_statement",
                         <<Inner("assignment_expression",
                                 <<Id(NameX, 0), Word("=", 1),
                                   Tok("number", <<"1">>, 1)>>)>>), 0)>>)

\* the parser collaborator: the trees of the source texts the server is sent
Parses ==
    [python |-> {ParseShape(LiteralShape), ParseShape(PositionShape)},
     javascript |-> {ParseShape(JsLiteralShape)}]
Codes == {t.text : t \in Parses.python}
\* the (code, language) arguments of the tool calls
Requests ==
    UNION {{[code |-> t.text, language |-> l] : t \in Parses[l]} : l \in DOMAIN Parses}
        \cup {[code |-> ParseShape(LiteralShape).text, language |-> "golang"]}

\* tools.py parse_code_to_ast with the language given
parse_code_to_ast(code, language) ==
    LET lang == IF language \in DOMAIN LANGUAGE_MAP THEN LANGUAGE_MAP[language]
                ELSE language
    IN  IF lang \notin languages
        THEN [error |-> <<"Unsupported language: ", lang>>]
        ELSE [language |-> lang,
              ast |-> CHOOSE t \in Parses[lang] : t.text = code]

\* enhanced_tools.py parse_code_to_ast_incremental without a previous tree
parse_code_to_ast_incremental(code, language) ==
    LET parsed == parse_code_to_ast(code, language)
    IN  IF "error" \in DOMAIN parsed THEN parsed
        ELSE [language |-> parsed.language, ast |-> parsed.ast,
              tree_object |-> [text |-> code]]

\* tools.py create_asg_from_ast
create_asg_from_ast(data) ==
    IF "error" \in DOMAIN data THEN data
    ELSE LET st == extract_nodes(data.ast, None, NewLists)
             es == IF data.language = "python"
                   THEN find_references(data.ast, None,
                                        find_definitions(data.ast, None, NewSymbols),
                                        st.edges)
                   ELSE st.edges
         IN  [language |-> data.language, nodes |-> st.nodes, edges |-> es,
              root |-> NodeId(data.ast)]

\* tools.py analyze_python_structure
RECURSIVE count_nodes(_), count_nodes_of(_, _)
count_nodes(node) == 1 + count_nodes_of(Children(node), Len(Children(node)))
count_nodes_of(cs, n) ==
    IF n = 0 THEN 0 ELSE count_nodes_of(cs, n - 1) + count_nodes(cs[n])

NestingTypes ==
    {"if_statement", "for_statement", "while_statement", "try_statement",
     "with_statement"}
RECURSIVE find_max_nesting(_, _), find_max_nesting_of(_, _, _)
find_max_nesting(node, current_depth) ==
    LET depth == IF node.type \in NestingTypes THEN current_depth + 1
                 ELSE current_depth
    IN  find_max_nesting_of(Children(node), Len(Children(node)), depth)
\* max_depth after the first n children
find_max_nesting_of(cs, n, depth) ==
    IF n = 0 THEN depth
    ELSE LET max_depth == find_max_nesting_of(cs, n - 1, depth)
             child_max == find_max_nesting(cs[n], depth)
         IN  IF child_max > max_depth THEN child_max ELSE max_depth

\* the texts of the children of one type, in order
RECURSIVE TextsOfType(_, _, _)
TextsOfType(cs, n, type) ==
    IF n = 0 THEN <<>>
    ELSE TextsOfType(cs, n - 1, type)
             \o (IF cs[n].type = type THEN <<cs[n].text>> ELSE <<>>)
\* the identifiers of every parameters child
RECURSIVE ParameterNames(_, _)
ParameterNames(cs, n) ==
    IF n = 0 THEN <<>>
    ELSE ParameterNames(cs, n - 1)
             \o (IF cs[n].type = "parameters"
                 THEN TextsOfType(Children(cs[n]), Len(Children(cs[n])), "identifier")
                 ELSE <<>>)
\* ".".join(module_names)
RECURSIVE Join(_, _)
Join(texts, n) ==
    IF n = 0 THEN <<>>
    ELSE IF n = 1 THEN texts[1]
    ELSE Join(texts, n - 1) \o <<".">> \o texts[n]
\* name = "" unless an identifier child is found
NameOf(node) ==
    LET i == FirstOfType(Children(node), "identifier")
    IN  IF i = 0 THEN <<>> ELSE Children(node)[i].text
Location(node) ==
    [start_line |-> node.start_point.row + 1, end_line |-> node.end_point.row + 1]

RECURSIVE extract_structures(_, _), extract_structures_of(_, _, _)
extract_structures(node, acc) ==
    LET cs == Children(node)
        acc1 ==
            CASE node.type = "function_definition" ->
                     [acc EXCEPT !.functions =
                         Append(@, [name |-> NameOf(node), location |-> Location(node),
                                    parameters |-> ParameterNames(cs, Len(cs))])]
              [] node.type = "class_definition" ->
                     [acc EXCEPT !.classes =
                         Append(@, [name |-> NameOf(node), location |-> Location(node)])]
              [] node.type = "import_statement" \/ node.type = "import_from_statement" ->
                     [acc EXCEPT !.imports =
                         Append(@, [module |-> LET names == TextsOfType(cs, Len(cs),
                                                                        "dotted_name")
                                               IN  Join(names, Len(names)),
                                    line |-> node.start_point.row + 1])]
              [] OTHER -> acc
    IN  extract_structures_of(cs, Len(cs), acc1)
extract_structures_of(cs, n, acc) ==
    IF n = 0 THEN acc
    ELSE LET before == extract_structures_of(cs, n - 1, acc)
         IN  IF Len(before.functions) >= 0    \* always: the earlier children are done first
             THEN extract_structures(cs[n], before)
             ELSE before

\* tools.py analyze_code_structure
analyze_code_structure(code, language) ==
    LET data == parse_code_to_ast(code, language)
    IN  IF "error" \in DOMAIN data THEN data
        ELSE LET found == IF data.language = "python"
                          THEN extract_structures(data.ast,
                                   [functions |-> <<>>, classes |-> <<>>, imports |-> <<>>])
                          ELSE [functions |-> <<>>, classes |-> <<>>, imports |-> <<>>]
             IN  [language |-> data.language,
                  code_length |-> Len(code),
                  functions |-> found.functions,
                  classes |-> found.classes,
                  imports |-> found.imports,
                  complexity_metrics |->
                      IF data.language = "python"
                      THEN [max_nesting_level |-> find_max_nesting(data.ast, 0),
                            total_nodes |-> count_nodes(data.ast)]
                      ELSE [max_nesting_level |-> 0, total_nodes |-> 0]]

\* the values hexdigest can take
Digests == {"0cc175b9", "92eb5ffe"}
\* hashlib.md5(code.encode('utf-8')).hexdigest()
get_code_hash(code) == md5[code]
\* os.path.join(CACHE_DIR, f"{code_hash}_{resource_type}.json")
get_cache_path(code_hash, resource_type) == <<code_hash, resource_type>>

\* json.dump(data, f): a parser tree object is not serializable, and the
\* TypeError, which cache_resource swallows, leaves the file cut off there
Serializable(data) == "tree_object" \notin DOMAIN data
\* a file written only when no file of that path exists
cache_resource_once(fs, code, resource_type, data) ==
    IF get_cache_path(get_code_hash(code), resource_type) \in DOMAIN fs THEN fs
    ELSE Put(fs, get_cache_path(get_code_hash(code), resource_type),
             [json |-> data, complete |-> Serializable(data)])
\* resources.py cache_resource on the files fs
cache_resource(fs, code, resource_type, data) ==
    Put(fs, get_cache_path(get_code_hash(code), resource_type),
        [json |-> data, complete |-> Serializable(data)])

\* if os.path.exists(cache_path): return json.load(f), or the error of a
\* file that does not load; else the error of a missing file
ReadResource(cache_path, unreadable, missing) ==
    IF cache_path \in DOMAIN files
    THEN IF files[cache_path].complete THEN files[cache_path].json
         ELSE [error |-> unreadable]
    ELSE [error |-> missing]
ast_resource(code_hash) ==
    ReadResource(get_cache_path(code_hash, "ast"), "Error reading cached AST",
                 "AST not found. Please use parse_to_ast tool first.")
asg_resource(code_hash) ==
    ReadResource(get_cache_path(code_hash, "asg"), "Error reading cached ASG",
                 "ASG not found. Please use generate_asg tool first.")
analysis_resource(code_hash) ==
    ReadResource(get_cache_path(code_hash, "analysis"), "Error reading cached analysis",
                 "Analysis not found. Please use analyze_code tool first.")

Call(tool, rq, code_id) ==
    [tool |-> tool, code |-> rq.code, language |-> rq.language, code_id |-> code_id]

InitCache ==
    /\ pc = "serve"
    /\ md5 \in [Codes -> Digests]
    /\ files = EmptyDict
    /\ AST_CACHE = EmptyDict
    /\ calls = <<>>
    /\ result = None
    /\ builder = "basic"
    /\ ast_data = None
    /\ nodes = <<>>
    /\ edges = <<>>
    /\ node_ids = EmptyDict
    /\ root_id = None
    /\ scope_manager = None
    /\ current_scope = None
    /\ symbols = None
    /\ ncalls = 1
    /\ prev = None
    /\ diff_in = None
    /\ diff_out = None
    /\ pos_in = None
    /\ pos_out = None
    /\ NoWalk

\* server.py parse_and_cache
ParseAndCache ==
    /\ pc = "serve"
    /\ Len(calls) < MaxCalls
    /\ \E rq \in Requests :
           LET code_hash == get_code_hash(rq.code)
               data == parse_code_to_ast(rq.code, rq.language)
           IN  /\ calls' = Append(calls, Call("parse_and_cache", rq, None))
               /\ IF "error" \notin DOMAIN data
                  THEN /\ files' = cache_resource(files, rq.code, "ast", data)
                       /\ result' = [ast |-> data, resource_uri |-> <<"ast://", code_hash>>]
                  ELSE /\ result' = data
                       /\ UNCHANGED files
    /\ UNCHANGED <<pc, builder, ast_data, nodes, edges, node_ids, root_id, scope_manager,
                   current_scope, symbols, ncalls, prev, diff_in, diff_out, pos_in, pos_out,
                   walk, md5, AST_CACHE>>

\* server.py generate_and_cache_asg
GenerateAndCacheAsg ==
    /\ pc = "serve"
    /\ Len(calls) < MaxCalls
    /\ \E rq \in Requests :
           LET code_hash == get_code_hash(rq.code)
               data == parse_code_to_ast(rq.code, rq.language)
               asg_data == create_asg_from_ast(data)
           IN  /\ calls' = Append(calls, Call("generate_and_cache_asg", rq, None))
               /\ IF "error" \in DOMAIN data
                  THEN /\ result' = data
                       /\ UNCHANGED files
                  ELSE /\ files' = cache_resource(
                                       cache_resource(files, rq.code, "ast", data),
                                       rq.code, "asg", asg_data)
                       /\ result' = [asg |-> asg_data,
                                     resource_uri |-> <<"asg://", code_hash>>]
    /\ UNCHANGED <<pc, builder, ast_data, nodes, edges, node_ids, root_id, scope_manager,
                   current_scope, symbols, ncalls, prev, diff_in, diff_out, pos_in, pos_out,
                   walk, md5, AST_CACHE>>

\* server.py analyze_and_cache
AnalyzeAndCache ==
    /\ pc = "serve"
    /\ Len(calls) < MaxCalls
    /\ \E rq \in Requests :
           LET code_hash == get_code_hash(rq.code)
               analysis_data == analyze_code_structure(rq.code, rq.language)
           IN  /\ calls' = Append(calls, Call("analyze_and_cache", rq, None))
               /\ IF "error" \notin DOMAIN analysis_data
                  THEN /\ files' = cache_resource(files, rq.code, "analysis", analysis_data)
                       /\ result' = [analysis |-> analysis_data,
                                     resource_uri |-> <<"analysis://", code_hash>>]
                  ELSE /\ result' = analysis_data
                       /\ UNCHANGED files
    /\ UNCHANGED <<pc, builder, ast_data, nodes, edges, node_ids, root_id, scope_manager,
                   current_scope, symbols, ncalls, prev, diff_in, diff_out, pos_in, pos_out,
                   walk, md5, AST_CACHE>>

\* a client reads ast://{code_hash}
ReadAst ==
    /\ pc = "serve"
    /\ \E code_hash \in Digests :
           result' = [uri |-> <<"ast://", code_hash>>, contents |-> ast_resource(code_hash)]
    /\ UNCHANGED <<pc, builder, ast_data, nodes, edges, node_ids, root_id, scope_manager,
                   current_scope, symbols, ncalls, prev, diff_in, diff_out, pos_in, pos_out,
                   walk, cache>>

\* a client reads asg://{code_hash}
ReadAsg ==
    /\ pc = "serve"
    /\ \E code_hash \in Digests :
           result' = [uri |-> <<"asg://", code_hash>>, contents |-> asg_resource(code_hash)]
    /\ UNCHANGED <<pc, builder, ast_data, nodes, edges, node_ids, root_id, scope_manager,
                   current_scope, symbols, ncalls, prev, diff_in, diff_out, pos_in, pos_out,
                   walk, cache>>

\* a client reads analysis://{code_hash}
ReadAnalysis ==
    /\ pc = "serve"
    /\ \E code_hash \in Digests :
           result' = [uri |-> <<"analysis://", code_hash>>,
                      contents |-> analysis_resource(code_hash)]
    /\ UNCHANGED <<pc, builder, ast_data, nodes, edges, node_ids, root_id, scope_manager,
                   current_scope, symbols, ncalls, prev, diff_in, diff_out, pos_in, pos_out,
                   walk, cache>>

NextCache ==
    \/ ParseAndCache
    \/ GenerateAndCacheAsg
    \/ AnalyzeAndCache
    \/ ReadAst
    \/ ReadAsg
    \/ ReadAnalysis

SpecCache == InitCache /\ [][NextCache]_vars

\* a key of AST_CACHE or a code_id: None, or the one-element tuple of a string
Str(string) == <<string>>
\* what a call names its cache entry by
CodeIds == {None, Str("a.py"), Str("code")}

\* server.py parse_and_cache_incremental.  The lookup AST_CACHE["code"] of a
\* key that is not in the dictionary raises KeyError before anything is
\* stored.
ParseAndCacheIncremental ==
    /\ pc = "serve"
    /\ Len(calls) < MaxCalls
    /\ \E rq \in Requests, code_id \in CodeIds :
           LET code_hash == get_code_hash(rq.code)
               cache_key == IF Truthy(code_id) THEN code_id ELSE Str(code_hash)
               known == cache_key \in DOMAIN AST_CACHE
               old_code == IF known THEN AST_CACHE[Str("code")] ELSE None
               data == parse_code_to_ast_incremental(rq.code, rq.language)
           IN  /\ calls' = Append(calls, Call("parse_and_cache_incremental", rq, code_id))
               /\ IF known /\ Str("code") \notin DOMAIN AST_CACHE
                  THEN /\ result' = [raised |-> "KeyError", key |-> "code"]
                       /\ UNCHANGED <<AST_CACHE, files>>
                  ELSE /\ AST_CACHE' = Put(AST_CACHE, cache_key,
                                           [code |-> rq.code, ast_data |-> data,
                                            language |-> Get(data, "language")])
                       /\ IF "error" \notin DOMAIN data
                          THEN /\ files' = cache_resource(files, rq.code, "ast", data)
                               /\ result' = [ast |-> data,
                                             resource_uri |-> <<"ast://", code_hash>>,
                                             incremental |-> old_code # None]
                          ELSE /\ result' = data
                               /\ UNCHANGED files
    /\ UNCHANGED <<pc, builder, ast_data, nodes, edges, node_ids, root_id, scope_manager,
                   current_scope, symbols, ncalls, prev, diff_in, diff_out, pos_in, pos_out,
                   walk, md5>>

NextIncremental == ParseAndCacheIncremental \/ ReadAst

SpecIncremental == InitCache /\ [][NextIncremental]_vars

----------------------------------------------------------------------------
(* The input tree seen from outside the passes: its nodes in pre-order,    *)
(* each with the index of its parent, the innermost scope-introducing      *)
(* node around it (itself included) and the scope around that node.        *)

RECURSIVE Flatten(_, _, _, _), FlattenKids(_, _, _, _, _)
Flatten(node, parent, scope, acc) ==
    LET inner == IF node.type \in PYTHON_SCOPE_NODES THEN NodeId(node) ELSE scope
        acc1  == Append(acc, [node |-> node, parent |-> parent,
                              scope |-> inner, outer |-> scope])
    IN  FlattenKids(Children(node), Len(Children(node)), Len(acc) + 1, inner, acc1)
FlattenKids(cs, n, parent, scope, acc) ==
    IF n = 0 THEN acc
    ELSE LET before == FlattenKids(cs, n - 1, parent, scope, acc)
         IN  IF Len(before) > 0 THEN Flatten(cs[n], parent, scope, before) ELSE before

FlatTree(ast) == Flatten(ast, 0, GlobalScope, <<>>)

Min(S) == CHOOSE x \in S : \A y \in S : x <= y
Max(S) == CHOOSE x \in S : \A y \in S : x >= y

\* the scopes around a scope, innermost first, ending with the global scope
RECURSIVE ScopeChain(_, _)
ScopeChain(flat, scope) ==
    IF scope = GlobalScope THEN <<GlobalScope>>
    ELSE LET j == CHOOSE j \in 1..Len(flat) :
                      NodeId(flat[j].node) = scope /\ flat[j].scope = scope
         IN  <<scope>> \o ScopeChain(flat, flat[j].outer)

\* text of the first identifier child, None when there is none
FirstIdentifier(node) ==
    LET cs == Children(node)
        is == {k \in 1..Len(cs) : cs[k].type = "identifier"}
    IN  IF is = {} THEN None ELSE cs[Min(is)]

\* the graph a finished python call returned
Returned == pc = "done" /\ "edges" \in DOMAIN result
ReturnedPython == Returned /\ ast_data.language = "python"
EdgeIndices(type) == {k \in 1..Len(result.edges) : result.edges[k].type = type}
HasEdge(source, target, type) ==
    \E k \in 1..Len(result.edges) :
        result.edges[k] = [source |-> source, target |-> target, type |-> type]

----------------------------------------------------------------------------
(* C1  Referential integrity: in the graph a call returns, the source and  *)
(* the target of every edge are ids of nodes of the returned node list.    *)
ReferentialIntegrity ==
    Returned =>
        \A k \in 1..Len(result.edges) :
            /\ \E j \in 1..Len(result.nodes) : result.nodes[j].id = result.edges[k].source
            /\ \E j \in 1..Len(result.nodes) : result.nodes[j].id = result.edges[k].target

\* a returned graph of the enhanced builder with references, control-flow
\* and containment edges
ReferentialIntegrityWitness ==
    /\ ReturnedPython
    /\ builder = "enhanced"
    /\ EdgeIndices("references") # {}
    /\ EdgeIndices("control_flow") # {}
    /\ EdgeIndices("contains") # {}

(* C2  Self-reference suppression: no references edge of a returned graph  *)
(* has its source equal to its target.                                     *)
NoSelfReference ==
    Returned =>
        \A k \in EdgeIndices("references") :
            result.edges[k].source # result.edges[k].target

\* an identifier whose lookup finds the identifier itself (an assignment
\* target or a parameter) was visited by the reference pass
NoSelfReferenceWitness ==
    /\ ReturnedPython
    /\ builder = "enhanced"
    /\ LET flat == FlatTree(ast_data.ast)
       IN  \E i \in 1..Len(flat) :
               /\ flat[i].node.type = "identifier"
               /\ find_variable(scope_manager, flat[i].node.text, flat[i].scope).ref
                      = NodeId(flat[i].node)

ExpectedBinding(flat, i) ==
    LET chain == ScopeChain(flat, flat[i].scope)
        name  == flat[i].node.text
        hits  == {k \in 1..Len(chain) : name \in DOMAIN VarsAt(scope_manager, chain[k])}
    IN  IF hits = {} THEN None ELSE VarsAt(scope_manager, chain[Min(hits)])[name]

(* C3  Scope-chain resolution: a references edge leaves an identifier and  *)
(* goes to the binding of its name in the first scope, from the            *)
(* identifier's own scope outward to the global scope, whose symbol table  *)
(* holds the name; and an identifier whose first such binding is another   *)
(* node has that edge.  So an inner binding shadows an outer one, and a    *)
(* binding of a scope off the chain is never the target.                   *)
ScopeChainResolution ==
    (ReturnedPython /\ builder = "enhanced") =>
        LET flat == FlatTree(ast_data.ast)
            ids  == {i \in 1..Len(flat) : flat[i].node.type = "identifier"}
        IN  /\ \A k \in EdgeIndices("references") :
                   \E i \in ids :
                       /\ NodeId(flat[i].node) = result.edges[k].source
                       /\ ExpectedBinding(flat, i) = result.edges[k].target
            /\ \A i \in ids :
                   (ExpectedBinding(flat, i) \notin {None, NodeId(flat[i].node)})
                       => HasEdge(NodeId(flat[i].node), ExpectedBinding(flat, i), "references")

\* a use inside an inner scope that binds the name, while the global scope
\* binds the same name to another node: the edge goes to the inner binding
ScopeChainResolutionWitness ==
    /\ ReturnedPython
    /\ builder = "enhanced"
    /\ LET flat == FlatTree(ast_data.ast)
       IN  \E i \in 1..Len(flat) :
               LET name == flat[i].node.text
                   own  == flat[i].scope
               IN  /\ flat[i].node.type = "identifier"
                   /\ own # GlobalScope
                   /\ name \in DOMAIN VarsAt(scope_manager, own)
                   /\ name \in DOMAIN VarsAt(scope_manager, GlobalScope)
                   /\ VarsAt(scope_manager, own)[name] # VarsAt(scope_manager, GlobalScope)[name]
                   /\ HasEdge(NodeId(flat[i].node), VarsAt(scope_manager, own)[name],
                              "references")

CallEdgesFrom(source) ==
    {k \in 1..Len(result.edges) :
        /\ result.edges[k].source = source
        /\ result.edges[k].type \in {"calls", "calls_import"}}

(* C4  At most one edge per call: for a call whose callee is a plain       *)
(* identifier, at most one edge is emitted for the call from that          *)
(* identifier, and when the callee's name is in both the function table    *)
(* and the import table no calls_import edge leaves it.                    *)
AtMostOneEdgePerCall ==
    ReturnedPython =>
        LET flat == FlatTree(ast_data.ast)
        IN  \A i \in 1..Len(flat) :
                (flat[i].node.type = "call" /\ FirstIdentifier(flat[i].node) # None) =>
                    LET callee == FirstIdentifier(flat[i].node)
                        from   == CallEdgesFrom(NodeId(callee))
                    IN  /\ Cardinality(from) <= 1
                        /\ (/\ builder = "enhanced"
                            /\ callee.text \in DOMAIN scope_manager.functions
                            /\ callee.text \in DOMAIN scope_manager.imports)
                               => \A k \in from : result.edges[k].type = "calls"

(* C5  Definition positions are excluded: an identifier whose parent is a  *)
(* function_definition, a class_definition or a parameter is the source of *)
(* no references edge.                                                     *)
DefinitionPositionsExcluded ==
    (ReturnedPython /\ builder = "enhanced") =>
        LET flat == FlatTree(ast_data.ast)
        IN  \A i \in 1..Len(flat) :
                (/\ flat[i].node.type = "identifier"
                 /\ flat[i].parent # 0
                 /\ flat[flat[i].parent].node.type \in DefinitionParents)
                    => \A k \in EdgeIndices("references") :
                           result.edges[k].source # NodeId(flat[i].node)

GlobalRefTree == ParseShape(GlobalRefShape)

(* C6  The global-reference scenario: for a module that assigns            *)
(* global_var and uses it in a function that has no local of that name,    *)
(* the returned graph has exactly one references edge, from the use to     *)
(* the identifier on the left of the module-level assignment.              *)
GlobalReferenceScenario ==
    (ReturnedPython /\ ast_data.ast = GlobalRefTree) =>
        LET flat    == FlatTree(GlobalRefTree)
            named   == {i \in 1..Len(flat) : /\ flat[i].node.type = "identifier"
                                            /\ flat[i].node.text = GlobalVarName}
            target  == flat[Min(named)].node
            use     == flat[Max(named)].node
            refs    == EdgeIndices("references")
        IN  /\ Cardinality(refs) = 1
            /\ \A k \in refs : /\ result.edges[k].source = NodeId(use)
                               /\ result.edges[k].target = NodeId(target)

FunctionsNamed(flat, name) ==
    {j \in 1..Len(flat) :
        /\ flat[j].node.type = "function_definition"
        /\ FirstIdentifier(flat[j].node) # None
        /\ FirstIdentifier(flat[j].node).text = name}

Callees(flat) ==
    {i \in 1..Len(flat) :
        flat[i].node.type = "call" /\ FirstIdentifier(flat[i].node) # None}

(* C7  A call whose callee is a plain identifier naming a function has a   *)
(* calls edge from the callee to the node of that function, wherever the   *)
(* call occurs.  As first stated: to the node of every function            *)
(* definition of that name.                                                *)
CallsEveryDefinition ==
    (ReturnedPython /\ builder = "enhanced") =>
        LET flat == FlatTree(ast_data.ast)
        IN  \A i \in Callees(flat) :
                LET callee == FirstIdentifier(flat[i].node)
                IN  \A j \in FunctionsNamed(flat, callee.text) :
                        HasEdge(NodeId(callee), NodeId(flat[j].node), "calls")

(* C7, as the code has it: the calls edge goes to the function definition  *)
(* registered under the name, which is the last definition of that name    *)
(* in pre-order of the module; the scope of the call plays no part, so a   *)
(* recursive call is linked to its own definition.                         *)
CallsRegisteredDefinition ==
    (ReturnedPython /\ builder = "enhanced") =>
        LET flat == FlatTree(ast_data.ast)
        IN  \A i \in Callees(flat) :
                LET callee == FirstIdentifier(flat[i].node)
                    defs   == FunctionsNamed(flat, callee.text)
                IN  /\ defs # {} =>
                           HasEdge(NodeId(callee), NodeId(flat[Max(defs)].node), "calls")
                    /\ \A k \in EdgeIndices("calls") :
                           result.edges[k].source = NodeId(callee) =>
                               /\ defs # {}
                               /\ result.edges[k].target = NodeId(flat[Max(defs)].node)

\* a call inside a nested scope to a name that two function definitions
\* carry, the call lying inside one of them
CallsRegisteredDefinitionWitness ==
    /\ ReturnedPython
    /\ builder = "enhanced"
    /\ LET flat == FlatTree(ast_data.ast)
       IN  \E i \in Callees(flat) :
               LET callee == FirstIdentifier(flat[i].node)
                   defs   == FunctionsNamed(flat, callee.text)
               IN  /\ Cardinality(defs) >= 2
                   /\ flat[i].scope \in {NodeId(flat[j].node) : j \in defs}
                   /\ HasEdge(NodeId(callee), NodeId(flat[Max(defs)].node), "calls")

(* C8  Determinism: a call with the same builder and the same argument as  *)
(* the call before it returns the same graph, node ids included; and the   *)
(* id of every returned node is the triple of that node's own type, start  *)
(* byte and end byte.                                                      *)
Determinism ==
    /\ (pc = "done" /\ prev # None /\ prev.builder = builder /\ prev.arg = ast_data)
           => result = prev.res
    /\ Returned =>
           \A j \in 1..Len(result.nodes) :
               result.nodes[j].id = <<result.nodes[j].type, result.nodes[j].start_byte,
                                      result.nodes[j].end_byte>>

\* the second of two calls with the same builder and the same python tree
\* has returned a graph with semantic edges
DeterminismWitness ==
    /\ ReturnedPython
    /\ ncalls = 2
    /\ prev # None
    /\ prev.builder = builder
    /\ prev.arg = ast_data
    /\ \E k \in 1..Len(result.edges) : result.edges[k].type # "contains"

Registered(flat, name, id, types) ==
    \E i \in 1..Len(flat) :
        /\ NodeId(flat[i].node) = id
        /\ flat[i].node.type \in types
        /\ \/ flat[i].node.text = name
           \/ /\ FirstIdentifier(flat[i].node) # None
              /\ FirstIdentifier(flat[i].node).text = name

OwnNodesOnly ==
    Returned =>
        LET flat == FlatTree(ast_data.ast)
            own  == {NodeId(flat[i].node) : i \in 1..Len(flat)}
        IN  /\ Len(result.nodes) = Len(flat)
            /\ \A j \in 1..Len(flat) :
                   /\ result.nodes[j].id = NodeId(flat[j].node)
                   /\ result.nodes[j].text = flat[j].node.text
            /\ \A k \in 1..Len(result.edges) :
                   result.edges[k].source \in own /\ result.edges[k].target \in own

OwnSymbolsOnly ==
    (pc \in {"defined", "resolved"} /\ ast_data.language = "python") =>
        LET flat == FlatTree(ast_data.ast)
        IN  IF builder = "enhanced"
            THEN LET sm == scope_manager
                 IN  /\ \A s \in DOMAIN sm.scopes :
                            \E i \in 1..Len(flat) :
                                /\ NodeId(flat[i].node) = s
                                /\ flat[i].node.type \in PYTHON_SCOPE_NODES
                     /\ \A s \in DOMAIN sm.variables :
                            /\ s \in DOMAIN sm.scopes \cup {GlobalScope}
                            /\ \A n \in DOMAIN sm.variables[s] :
                                   Registered(flat, n, sm.variables[s][n], {"identifier"})
                     /\ \A n \in DOMAIN sm.functions :
                            Registered(flat, n, sm.functions[n], {"function_definition"})
                     /\ \A n \in DOMAIN sm.classes :
                            Registered(flat, n, sm.classes[n], {"class_definition"})
                     /\ \A n \in DOMAIN sm.imports :
                            Registered(flat, n, sm.imports[n], {"dotted_name", "identifier"})
            ELSE /\ \A n \in DOMAIN symbols.functions :
                        Registered(flat, n, symbols.functions[n], {"function_definition"})
                 /\ \A s \in DOMAIN symbols.variables :
                        \A n \in DOMAIN symbols.variables[s] :
                            Registered(flat, n, symbols.variables[s][n], {"identifier"})

DiffIdempotence ==
    (/\ pc = "diffed"
     /\ "error" \notin DOMAIN diff_out
     /\ diff_in.reported = <<>>)
        => /\ diff_out.changed_ranges = <<>>
           /\ diff_out.changed_nodes = <<>>

\* a tree with nested nodes has been diffed against itself
DiffIdempotenceWitness ==
    /\ pc = "diffed"
    /\ "error" \notin DOMAIN diff_out
    /\ diff_in.ast_old = diff_in.ast_new
    /\ diff_out.new_ast = ParseShape(PositionShape)
    /\ diff_out.changed_nodes = <<>>

----------------------------------------------------------------------------
(* The diff seen from outside find_nodes_in_range.                         *)

DiffReturned == pc = "diffed" /\ "error" \notin DOMAIN diff_out

\* the byte span of a node and a range have a byte in common
Intersects(node, r) == node.start_byte < r.end_byte /\ r.start_byte < node.end_byte
Candidate(node, ranges) == \E k \in 1..Len(ranges) : Intersects(node, ranges[k])
CandidateChildren(node, ranges) ==
    {k \in 1..Len(Children(node)) : Candidate(Children(node)[k], ranges)}

RECURSIVE ProperAncestor(_, _)
ProperAncestor(a, d) ==
    \E k \in 1..Len(Children(a)) : Children(a)[k] = d \/ ProperAncestor(Children(a)[k], d)

\* the integer literal of x = 2 and the range that covers it alone
EditedLiteral == ParseShape(EditedLiteralShape)
LiteralNode ==
    LET flat == FlatTree(EditedLiteral)
    IN  flat[CHOOSE i \in 1..Len(flat) : flat[i].node.type = "integer"].node
LiteralEdit == Edit(EditedLiteral.text, LiteralNode.start_byte, LiteralNode.end_byte)

(* C11  Diff maximal-depth policy: a node is in changed_nodes only if its  *)
(* span intersects an edit range and the span of none of its children      *)
(* does; and diffing x = 1 against x = 2 with the one range that covers    *)
(* the literal reports the literal node alone.                             *)
MaximalDepthPolicy ==
    DiffReturned =>
        /\ \A k \in 1..Len(diff_out.changed_nodes) :
               /\ Candidate(diff_out.changed_nodes[k], diff_out.changed_ranges)
               /\ CandidateChildren(diff_out.changed_nodes[k], diff_out.changed_ranges) = {}
        /\ (/\ diff_in.ast_old.ast = ParseShape(LiteralShape)
            /\ diff_in.ast_new.ast = EditedLiteral
            /\ diff_in.reported = <<LiteralEdit>>)
               => diff_out.changed_nodes = <<LiteralNode>>

(* C12  No ancestor/descendant duplicates: changed_nodes never holds both  *)
(* a node and one of its proper ancestors.                                 *)
NoAncestorDescendantPair ==
    DiffReturned =>
        \A j, k \in 1..Len(diff_out.changed_nodes) :
            ~ProperAncestor(diff_out.changed_nodes[j], diff_out.changed_nodes[k])

\* a diff with two edit ranges, each intersecting nodes at several depths,
\* has reported a node
NoAncestorDescendantPairWitness ==
    /\ DiffReturned
    /\ Len(diff_out.changed_ranges) = 2
    /\ diff_out.changed_nodes # <<>>
    /\ \A k \in 1..2 :
           Cardinality({i \in 1..Len(FlatTree(diff_in.ast_new.ast)) :
                           Intersects(FlatTree(diff_in.ast_new.ast)[i].node,
                                      diff_out.changed_ranges[k])}) >= 3

\* the highest node of which two or more children intersect the range r
RECURSIVE SiblingsParent(_, _)
SiblingsParent(node, r) ==
    LET hit == CandidateChildren(node, <<r>>)
    IN  IF Cardinality(hit) >= 2 THEN node
        ELSE IF hit = {} THEN None
        ELSE SiblingsParent(Children(node)[CHOOSE k \in hit : TRUE], r)

(* C13  An edit spanning siblings: when the one edit range intersects two  *)
(* or more sibling subtrees, changed_nodes holds the parent of those       *)
(* siblings and nothing else, neither a deeper node nor a higher one.      *)
SiblingSpanningEdit ==
    (/\ DiffReturned
     /\ Len(diff_out.changed_ranges) = 1
     /\ SiblingsParent(diff_in.ast_new.ast, diff_out.changed_ranges[1]) # None)
        => diff_out.changed_nodes =
               <<SiblingsParent(diff_in.ast_new.ast, diff_out.changed_ranges[1])>>

----------------------------------------------------------------------------
(* Position lookup seen from outside find_node.                            *)

\* the boundary rule: from the start column on the first line of the node
\* to the end column, included, on its last line
Contains(node, line, column) ==
    /\ \/ node.start_point.row < line
       \/ node.start_point.row = line /\ node.start_point.column <= column
    /\ \/ line < node.end_point.row
       \/ line = node.end_point.row /\ column <= node.end_point.column

ContainingChildren(node, line, column) ==
    {k \in 1..Len(Children(node)) : Contains(Children(node)[k], line, column)}

PositionRoot == pos_in.ast_data.ast
PositionFound == pc = "found" /\ pos_out # None

\* the n of return n in def f(n): / return n
ReturnedName ==
    LET flat == FlatTree(ParseShape(PositionShape))
    IN  flat[Max({i \in 1..Len(flat) : flat[i].node.type = "identifier"})].node

(* C14  Position lookup returns the deepest match: the returned node is a  *)
(* node of the tree that contains the point under the boundary rule, each  *)
(* of its ancestors contains the point, and none of its children does; at  *)
(* the n of return n in def f(n): / return n it is that identifier.        *)
DeepestMatch ==
    PositionFound =>
        LET flat == FlatTree(PositionRoot)
        IN  /\ \E i \in 1..Len(flat) : flat[i].node = pos_out
            /\ Contains(pos_out, pos_in.line, pos_in.column)
            /\ \A j \in 1..Len(flat) :
                   ProperAncestor(flat[j].node, pos_out)
                       => Contains(flat[j].node, pos_in.line, pos_in.column)
            /\ ContainingChildren(pos_out, pos_in.line, pos_in.column) = {}
            /\ (/\ PositionRoot = ParseShape(PositionShape)
                /\ pos_in.line = ReturnedName.start_point.row
                /\ pos_in.column = ReturnedName.start_point.column)
                   => pos_out = ReturnedName

\* the lookup at the n of return n has returned a node
DeepestMatchWitness ==
    /\ PositionFound
    /\ PositionRoot = ParseShape(PositionShape)
    /\ pos_in.line = ReturnedName.start_point.row
    /\ pos_in.column = ReturnedName.start_point.column
    /\ pos_out.type = "identifier"

(* C15  Position lookup fails exactly when the point is outside the root:  *)
(* get_node_by_position returns no node, and the tool a not-found error,   *)
(* if and only if the root does not contain the point under the boundary   *)
(* rule.                                                                   *)
NotFoundIffOutsideRoot ==
    /\ pc = "found" =>
           (pos_out = None <=> ~Contains(PositionRoot, pos_in.line, pos_in.column))
    /\ (pc = "answered" /\ "error" \notin DOMAIN pos_in.ast_data) =>
           /\ "error" \in DOMAIN pos_out
                  <=> ~Contains(PositionRoot, pos_in.line, pos_in.column)
           /\ "node" \in DOMAIN pos_out
                  <=> Contains(PositionRoot, pos_in.line, pos_in.column)

\* the tool has answered not-found for a point on the last line of the
\* root, just right of its end column
NotFoundIffOutsideRootWitness ==
    /\ pc = "answered"
    /\ "error" \notin DOMAIN pos_in.ast_data
    /\ "error" \in DOMAIN pos_out
    /\ pos_in.line = PositionRoot.end_point.row
    /\ pos_in.column = PositionRoot.end_point.column + 1

\* from a node down, each time into the last child that contains the point
RECURSIVE LastDescent(_, _, _)
LastDescent(node, line, column) ==
    LET hit == ContainingChildren(node, line, column)
    IN  IF hit = {} THEN node ELSE LastDescent(Children(node)[Max(hit)], line, column)

(* C16  Position lookup tie-break: when several children of a matching     *)
(* node contain the point, the result is taken from the last of them in    *)
(* child order.                                                            *)
LastMatchingChild ==
    PositionFound => pos_out = LastDescent(PositionRoot, pos_in.line, pos_in.column)

\* the returned node lies below a node two or more children of which
\* contain the point
LastMatchingChildWitness ==
    /\ PositionFound
    /\ LET flat == FlatTree(PositionRoot)
       IN  \E i \in 1..Len(flat) :
               /\ ProperAncestor(flat[i].node, pos_out)
               /\ Cardinality(ContainingChildren(flat[i].node, pos_in.line,
                                                 pos_in.column)) >= 2

----------------------------------------------------------------------------
(* C17  Containment edges mirror the tree: the returned graph has exactly  *)
(* one contains edge for each parent-child pair of the input tree, from    *)
(* the parent's id to the child's id, and no other contains edge; so there *)
(* is one contains edge fewer than there are nodes.                        *)
ContainsMirrorsTree ==
    Returned =>
        LET flat == FlatTree(ast_data.ast)
            cont == EdgeIndices("contains")
        IN  /\ Cardinality(cont) = Len(result.nodes) - 1
            /\ \A i \in 2..Len(flat) :
                   Cardinality({k \in cont :
                       /\ result.edges[k].source = NodeId(flat[flat[i].parent].node)
                       /\ result.edges[k].target = NodeId(flat[i].node)}) = 1
            /\ \A k \in cont :
                   \E i \in 2..Len(flat) :
                       /\ result.edges[k].source = NodeId(flat[flat[i].parent].node)
                       /\ result.edges[k].target = NodeId(flat[i].node)

\* a graph of a tree four levels deep or more, with semantic edges besides
ContainsMirrorsTreeWitness ==
    /\ ReturnedPython
    /\ EdgeIndices("references") # {}
    /\ LET flat == FlatTree(ast_data.ast)
       IN  \E i \in 1..Len(flat) :
               /\ flat[i].parent # 0
               /\ flat[flat[i].parent].parent # 0
               /\ flat[flat[flat[i].parent].parent].parent # 0

(* C18  Node list and index: the returned node list is the pre-order       *)
(* listing of the input tree, one entry per tree node; root is the id of   *)
(* the first entry; and node_lookup sends every id of the list, and        *)
(* nothing else, to an index whose entry carries that id.                  *)
NodeListAndIndex ==
    Returned =>
        LET flat == FlatTree(ast_data.ast)
        IN  /\ Len(result.nodes) = Len(flat)
            /\ \A j \in 1..Len(flat) :
                   /\ result.nodes[j].type = flat[j].node.type
                   /\ result.nodes[j].start_byte = flat[j].node.start_byte
                   /\ result.nodes[j].end_byte = flat[j].node.end_byte
                   /\ result.nodes[j].text = flat[j].node.text
            /\ result.root = result.nodes[1].id
            /\ builder = "enhanced" =>
                   /\ DOMAIN result.node_lookup
                          = {result.nodes[j].id : j \in 1..Len(result.nodes)}
                   /\ \A j \in 1..Len(result.nodes) :
                          \* indices of the list count from 0
                          result.nodes[result.node_lookup[result.nodes[j].id] + 1].id
                              = result.nodes[j].id

\* the enhanced builder has returned the graph of a tree with nested
\* statements
NodeListAndIndexWitness ==
    /\ ReturnedPython
    /\ builder = "enhanced"
    /\ Len(result.nodes) >= 12
    /\ \E j \in 1..Len(result.nodes) : result.nodes[j].type = "block"

RECURSIVE ReachesGlobal(_, _, _)
ReachesGlobal(sm, scope, steps) ==
    \/ scope = sm.global_scope
    \/ /\ steps > 0
       /\ scope \in DOMAIN sm.scopes
       /\ ReachesGlobal(sm, sm.scopes[scope], steps - 1)

DefinitionPassDone ==
    /\ pc \in {"defined", "resolved", "done"}
    /\ builder = "enhanced"
    /\ "error" \notin DOMAIN ast_data
    /\ ast_data.language = "python"

(* C19  Scope tree well-formedness: after the definition pass, the parent  *)
(* links lead from every registered scope to the global scope in at most   *)
(* as many steps as there are scopes, so without a cycle; every scope is   *)
(* the id of a node of a scope-introducing type; the global scope has no   *)
(* parent.                                                                 *)
ScopeTreeWellFormed ==
    DefinitionPassDone =>
        LET flat == FlatTree(ast_data.ast)
            sm   == scope_manager
        IN  /\ get_parent_scope(sm, sm.global_scope) = None
            /\ \A s \in DOMAIN sm.scopes :
                   /\ ReachesGlobal(sm, s, Cardinality(DOMAIN sm.scopes))
                   /\ \E i \in 1..Len(flat) :
                          /\ NodeId(flat[i].node) = s
                          /\ flat[i].node.type \in PYTHON_SCOPE_NODES

\* the definition pass has registered a scope inside another scope
ScopeTreeWellFormedWitness ==
    /\ DefinitionPassDone
    /\ \E s \in DOMAIN scope_manager.scopes :
           scope_manager.scopes[s] \in DOMAIN scope_manager.scopes

(* C20  Diff without prior state is an error value: when either of the     *)
(* two AST results lacks its tree object, the diff can be carried out, and *)
(* it returns an error result that has neither changed ranges nor changed  *)
(* nodes.                                                                  *)
LacksTreeObject ==
    \/ "tree_object" \notin DOMAIN diff_in.ast_old
    \/ "tree_object" \notin DOMAIN diff_in.ast_new

----------------------------------------------------------------------------
(* C21  Unsupported language is an error value: a graph construction     *)
(* called for a language other than python, the one language that has a   *)
(* scope and definition configuration, returns an error result and no     *)
(* graph.                                                                  *)
UnsupportedLanguageIsError ==
    (pc = "done" /\ "language" \in DOMAIN ast_data /\ ast_data.language # "python")
        => ("error" \in DOMAIN result /\ "nodes" \notin DOMAIN result)

----------------------------------------------------------------------------
RECURSIVE Depth(_), DepthOfKids(_, _)
\* the number of nodes on the longest path from the node down to a leaf
Depth(node) == 1 + DepthOfKids(Children(node), Len(Children(node)))
DepthOfKids(cs, n) ==
    IF n = 0 THEN 0 ELSE Max({DepthOfKids(cs, n - 1), Depth(cs[n])})

\* the nesting of the deepest tree handed to the graph construction
DeepestInput == Max({Depth(a.ast) : a \in PythonInputs \cup OtherInputs})

(* C22  Depth guard: whatever the depth limit is, as long as the deepest  *)
(* input tree is nested deeper than it, the graph construction over that   *)
(* tree returns an error result instead of a graph.                        *)
DepthGuard ==
    (pc = "done" /\ "ast" \in DOMAIN ast_data /\ Depth(ast_data.ast) = DeepestInput)
        => ("error" \in DOMAIN result /\ "nodes" \notin DOMAIN result)

----------------------------------------------------------------------------
\* a call has returned: no frame is left and no lookup is under way
Finished ==
    /\ pc \in {"done", "diffed", "answered"}
    /\ stack = <<>>
    /\ lookup = None

(* C23  Termination: every call of the graph construction (lowering,      *)
(* definition pass, reference pass with each walk of find_variable up the  *)
(* scope chain), of the diff and of the position lookup, followed one      *)
(* recursive call and one loop turn at a time, eventually returns.         *)
Termination == <>Finished

\* a graph was returned after find_variable had walked from a nested scope
\* up to the global scope and found the variable there
TerminationWitness ==
    /\ Finished
    /\ pc = "done"
    /\ "edges" \in DOMAIN result
    /\ \E k \in 1..Len(result.edges) :
           LET edge == result.edges[k]
               globals == VarsAt(scope_manager, GlobalScope)
           IN  /\ edge.type = "references"
               /\ visited.references[edge.source] # GlobalScope
               /\ \E n \in DOMAIN globals : globals[n] = edge.target

----------------------------------------------------------------------------
\* the resource kinds a tool stores when its parse succeeds
KindsOf(tool) ==
    CASE tool = "parse_and_cache" -> {"ast"}
      [] tool = "generate_and_cache_asg" -> {"ast", "asg"}
      [] tool = "analyze_and_cache" -> {"analysis"}
      [] OTHER -> {}
ParseOf(call) == parse_code_to_ast(call.code, call.language)
ParseFails(call) == "error" \in DOMAIN ParseOf(call)
\* the payload of one kind that a call computes from its own arguments
PayloadOf(call, kind) ==
    CASE kind = "ast" -> ParseOf(call)
      [] kind = "asg" -> create_asg_from_ast(ParseOf(call))
      [] kind = "analysis" -> analyze_code_structure(call.code, call.language)
\* the calls, by their place in the history, that stored (code_hash, kind)
Writers(code_hash, kind) ==
    {k \in 1..Len(calls) : /\ kind \in KindsOf(calls[k].tool)
                           /\ ~ParseFails(calls[k])
                           /\ md5[calls[k].code] = code_hash}
ReadOf(code_hash, kind) ==
    CASE kind = "ast" -> ast_resource(code_hash)
      [] kind = "asg" -> asg_resource(code_hash)
      [] kind = "analysis" -> analysis_resource(code_hash)
NotFound(kind) ==
    CASE kind = "ast" -> [error |-> "AST not found. Please use parse_to_ast tool first."]
      [] kind = "asg" -> [error |-> "ASG not found. Please use generate_asg tool first."]
      [] kind = "analysis" ->
             [error |-> "Analysis not found. Please use analyze_code tool first."]

(* C24  Cache store/load by content hash: after any sequence of           *)
(* parse_and_cache, generate_and_cache_asg and analyze_and_cache calls,    *)
(* the resource of every (hash, kind) reads as the payload of that kind    *)
(* computed by the latest call that parsed successfully, stores that kind  *)
(* and whose code has that hash, and as the not-found error when there is  *)
(* no such call; a call whose parse fails returns the parse error.         *)
CacheStoreLoad ==
    /\ \A code_hash \in Digests, kind \in {"ast", "asg", "analysis"} :
           ReadOf(code_hash, kind) =
               IF Writers(code_hash, kind) = {} THEN NotFound(kind)
               ELSE PayloadOf(calls[Max(Writers(code_hash, kind))], kind)
    /\ (calls # <<>> /\ ParseFails(calls[Len(calls)]) /\ "uri" \notin DOMAIN result)
           => result = ParseOf(calls[Len(calls)])
    /\ "uri" \in DOMAIN result =>
           \E code_hash \in Digests, kind \in {"ast", "asg", "analysis"} :
               /\ result.uri = <<kind \o "://", code_hash>>
               /\ result.contents = ReadOf(code_hash, kind)

\* a resource was read whose first payload a later call has replaced by a
\* different one
CacheStoreLoadWitness ==
    /\ Len(calls) = MaxCalls
    /\ "uri" \in DOMAIN result
    /\ "error" \notin DOMAIN result.contents
    /\ \E code_hash \in Digests, kind \in {"ast", "asg", "analysis"} :
           /\ result.uri[2] = code_hash
           /\ result.contents = ReadOf(code_hash, kind)
           /\ \E k \in Writers(code_hash, kind) :
                  /\ k < Max(Writers(code_hash, kind))
                  /\ PayloadOf(calls[k], kind) # result.contents

----------------------------------------------------------------------------
\* cache_key = code_id if code_id else code_hash
KeyOf(call) == IF Truthy(call.code_id) THEN call.code_id ELSE Str(md5[call.code])

(* C29  Incremental parse cache: after every parse_and_cache_incremental   *)
(* call the call has returned a result and has not raised, the incremental *)
(* flag of the result is true exactly when an earlier call used the same   *)
(* cache key, and the entry of AST_CACHE under that key holds the code of  *)
(* this call.                                                              *)
IncrementalParseCache ==
    (calls # <<>> /\ "uri" \notin DOMAIN result) =>
        LET last == calls[Len(calls)]
            earlier == \E k \in 1..(Len(calls) - 1) : KeyOf(calls[k]) = KeyOf(last)
        IN  /\ "raised" \notin DOMAIN result
            /\ "incremental" \in DOMAIN result => result.incremental = earlier
            /\ KeyOf(last) \in DOMAIN AST_CACHE
            /\ AST_CACHE[KeyOf(last)].code = last.code

----------------------------------------------------------------------------
\* the identifiers of a subtree, at any depth, in pre-order
RECURSIVE IdentifiersIn(_), IdentifiersInKids(_, _)
IdentifiersIn(node) ==
    (IF node.type = "identifier" THEN <<node>> ELSE <<>>)
        \o IdentifiersInKids(Children(node), Len(Children(node)))
IdentifiersInKids(cs, n) ==
    IF n = 0 THEN <<>> ELSE IdentifiersInKids(cs, n - 1) \o IdentifiersIn(cs[n])

\* the index of the first "=" child that is not the first child, 0 if none
FirstSeparator(node) ==
    LET cs == Children(node)
        seps == {k \in 2..Len(cs) : cs[k].type = "="}
    IN  IF seps = {} THEN 0 ELSE Min(seps)
\* the identifiers left and right of that separator
LeftIdentifiers(node) ==
    IdentifiersInKids(Children(node), FirstSeparator(node) - 1)
RightIdentifiers(node) ==
    LET cs == Children(node)
        right == SubSeq(cs, FirstSeparator(node) + 1, Len(cs))
    IN  IdentifiersInKids(right, Len(right))
\* the ids bound in some symbol table
BoundIds ==
    UNION {{scope_manager.variables[s][n] : n \in DOMAIN scope_manager.variables[s]} :
               s \in DOMAIN scope_manager.variables}

(* C25  Assignment targets are registered in the active scope: once the   *)
(* definition pass is over, for every assignment node with a separator,    *)
(* the name of each identifier left of its first "=", at any depth, is in  *)
(* the symbol table of the scope the assignment lies in, and no identifier *)
(* right of that separator is the binding of any name.                     *)
AssignmentTargetsRegistered ==
    (DefinitionPassDone /\ ast_data.language = "python") =>
        LET flat == FlatTree(ast_data.ast)
        IN  \A i \in 1..Len(flat) :
                (flat[i].node.type = "assignment" /\ FirstSeparator(flat[i].node) > 0) =>
                    /\ \A k \in 1..Len(LeftIdentifiers(flat[i].node)) :
                           LeftIdentifiers(flat[i].node)[k].text
                               \in DOMAIN VarsAt(scope_manager, flat[i].scope)
                    /\ \A k \in 1..Len(RightIdentifiers(flat[i].node)) :
                           NodeId(RightIdentifiers(flat[i].node)[k]) \notin BoundIds

----------------------------------------------------------------------------
\* the control-flow nodes of the tree, and the first block child of one
ControlFlowNodes(flat) ==
    {i \in 1..Len(flat) : flat[i].node.type \in PYTHON_CONTROL_FLOW_NODES}
FirstBlock(node) ==
    LET cs == Children(node)
        blocks == {k \in 1..Len(cs) : cs[k].type = "block"}
    IN  IF blocks = {} THEN None ELSE cs[Min(blocks)]

(* C26  Control-flow edges: in the graph the enhanced builder returns, a   *)
(* control-flow node with a block child is the source of exactly one       *)
(* control_flow edge, which goes to its first block child; a control-flow  *)
(* node without a block child is the source of none; and every             *)
(* control_flow edge is such an edge.                                      *)
ControlFlowEdges ==
    (ReturnedPython /\ builder = "enhanced") =>
        LET flat == FlatTree(ast_data.ast)
            from(i) == {k \in EdgeIndices("control_flow") :
                            result.edges[k].source = NodeId(flat[i].node)}
        IN  /\ \A i \in ControlFlowNodes(flat) :
                   IF FirstBlock(flat[i].node) = None THEN from(i) = {}
                   ELSE /\ Cardinality(from(i)) = 1
                        /\ \A k \in from(i) :
                               result.edges[k].target = NodeId(FirstBlock(flat[i].node))
            /\ \A k \in EdgeIndices("control_flow") :
                   \E i \in ControlFlowNodes(flat) : k \in from(i)

\* an if statement with an else clause: the one edge goes to the block that
\* is its child, none to the block of the else clause
ControlFlowEdgesWitness ==
    /\ ReturnedPython
    /\ builder = "enhanced"
    /\ LET flat == FlatTree(ast_data.ast)
       IN  \E i \in ControlFlowNodes(flat) :
               /\ FirstBlock(flat[i].node) # None
               /\ \E c \in 1..Len(Children(flat[i].node)) :
                      Children(flat[i].node)[c].type = "else_clause"
               /\ HasEdge(NodeId(flat[i].node), NodeId(FirstBlock(flat[i].node)),
                          "control_flow")
               /\ Cardinality(EdgeIndices("control_flow")) = 1

----------------------------------------------------------------------------
\* the ids of the nodes of the input tree
TreeIds == {NodeId(FlatTree(ast_data.ast)[i].node) : i \in 1..Len(FlatTree(ast_data.ast))}
\* the enhanced builder is at work on, or has finished with, a python tree
WalkingPython ==
    /\ pc \in {"find_enhanced_definitions", "defined", "find_enhanced_references",
               "resolved", "done"}
    /\ builder = "enhanced"
    /\ "error" \notin DOMAIN ast_data
    /\ ast_data.language = "python"

(* C27  The two passes agree on scopes: every node the reference pass has  *)
(* entered was entered by the definition pass with the same active scope;  *)
(* when the reference pass is over it has entered every node of the input  *)
(* tree; an identifier being looked up is looked up from the scope the     *)
(* definition pass had at that identifier; the reference pass meets every  *)
(* registered parameter and assignment target in the scope whose symbol    *)
(* table holds it; and when either pass has returned, the current scope    *)
(* is the global scope again.                                              *)
PassesAgreeOnScopes ==
    WalkingPython =>
        /\ pc \in {"find_enhanced_references", "resolved", "done"} =>
               \A id \in DOMAIN visited.references :
                   /\ id \in DOMAIN visited.definitions
                   /\ visited.references[id] = visited.definitions[id]
        /\ pc \in {"resolved", "done"} =>
               /\ DOMAIN visited.references = TreeIds
               /\ DOMAIN visited.definitions = TreeIds
        /\ (pc = "find_enhanced_references" /\ lookup # None) =>
               current_scope = visited.definitions[lookup.var_id]
        /\ pc \in {"resolved", "done"} =>
               \A s \in DOMAIN scope_manager.variables :
                   \A n \in DOMAIN scope_manager.variables[s] :
                       visited.references[scope_manager.variables[s][n]] = s
        /\ pc \in {"defined", "resolved"} => current_scope = GlobalScope

\* both passes are over and entered some node inside a scope other than
\* the global one
PassesAgreeOnScopesWitness ==
    /\ WalkingPython
    /\ pc = "resolved"
    /\ current_scope = GlobalScope
    /\ \E id \in DOMAIN visited.references :
           /\ visited.references[id] # GlobalScope
           /\ visited.references[id] # id
           /\ visited.definitions[id] = visited.references[id]

----------------------------------------------------------------------------
\* the scope the basic builder gives to what lies inside node i: the id of
\* the nearest function_definition above it, None at module level
RECURSIVE EnclosingFunction(_, _)
EnclosingFunction(flat, i) ==
    IF flat[i].parent = 0 THEN None
    ELSE IF flat[flat[i].parent].node.type = "function_definition"
         THEN NodeId(flat[flat[i].parent].node)
         ELSE EnclosingFunction(flat, flat[i].parent)
\* the assignment target a name stands for, seen from a scope: the one of
\* the scope itself, failing that the one of the module
AssignedIn(scope, name) ==
    IF scope \in DOMAIN symbols.variables /\ name \in DOMAIN symbols.variables[scope]
    THEN symbols.variables[scope][name]
    ELSE IF None \in DOMAIN symbols.variables /\ name \in DOMAIN symbols.variables[None]
         THEN symbols.variables[None][name]
         ELSE None

(* C28  Basic graph variable references: in the graph the basic builder    *)
(* returns, an identifier whose name is assigned in its scope, or failing  *)
(* that at module level, is the source of a references edge to that        *)
(* assignment target, unless the identifier is the target itself.          *)
BasicVariableReferences ==
    (ReturnedPython /\ builder = "basic") =>
        LET flat == FlatTree(ast_data.ast)
        IN  \A i \in 1..Len(flat) :
                flat[i].node.type = "identifier" =>
                    LET target == AssignedIn(EnclosingFunction(flat, i), flat[i].node.text)
                    IN  (target # None /\ target # NodeId(flat[i].node)) =>
                            HasEdge(NodeId(flat[i].node), target, "references")

----------------------------------------------------------------------------
\* the nodes above node i of a flattened tree
RECURSIVE AncestorsOf(_, _)
AncestorsOf(flat, i) ==
    IF flat[i].parent = 0 THEN {}
    ELSE {flat[i].parent} \cup AncestorsOf(flat, flat[i].parent)
\* the half-open overlap of a node's byte span with some range
OverlapsSomeRange(node, ranges) ==
    \E k \in 1..Len(ranges) :
        ~(node.end_byte <= ranges[k].start_byte \/ node.start_byte >= ranges[k].end_byte)
\* the nodes that overlap a range while none of their ancestors does
TopmostOverlapping(flat, ranges) ==
    {i \in 1..Len(flat) :
        /\ OverlapsSomeRange(flat[i].node, ranges)
        /\ \A j \in AncestorsOf(flat, i) : ~OverlapsSomeRange(flat[j].node, ranges)}

(* C30  Shape of the diff result: changed_nodes holds at most one node;    *)
(* when it holds one, the byte span of that node overlaps some edit range  *)
(* (half-open overlap), none of its ancestors overlaps any range, and it   *)
(* is the first such node of the new tree in pre-order.                    *)
DiffResultShape ==
    DiffReturned =>
        /\ Len(diff_out.changed_nodes) <= 1
        /\ Len(diff_out.changed_nodes) = 1 =>
               LET flat == FlatTree(diff_out.new_ast)
                   top  == TopmostOverlapping(flat, diff_out.changed_ranges)
               IN  /\ top # {}
                   /\ diff_out.changed_nodes[1] = flat[Min(top)].node

\* a diff with edit ranges reported one node although several nodes of the
\* new tree overlap a range
DiffResultShapeWitness ==
    /\ DiffReturned
    /\ Len(diff_out.changed_nodes) = 1
    /\ diff_out.changed_ranges # <<>>
    /\ LET flat == FlatTree(diff_out.new_ast)
       IN  Cardinality({i \in 1..Len(flat) :
                           OverlapsSomeRange(flat[i].node, diff_out.changed_ranges)}) >= 3

====
